---- MODULE Spec2Model ----
(***************************************************************************)
(* Batch job lifecycle of CodebookAI: submission, status polling, listing, *)
(* cancellation and result reconciliation (batch_processing/               *)
(* batch_method.py), together with the provider-side job state the calls   *)
(* read and change.                                                        *)
(*                                                                         *)
(* Model text is a sequence of tokens.  A token is one character of the    *)
(* text, except that the words label, LABEL, confidence, custom_id, quote, *)
(* json and null and the triple backtick are one token each; that is the   *)
(* granularity at which json.loads and the three regular expressions of    *)
(* _safe_parse_model_text tell texts apart.                                *)
(***************************************************************************)
EXTENDS Integers, Sequences, FiniteSets, TLC

\* ------------------------------------------------------------------------
\* Bounds
\* ------------------------------------------------------------------------
MaxJobs == 2
MaxCalls == 2
MaxReadJobs == 1
MaxRecords == 2
MaxItems == 3
MaxLongItems == 11
MaxSchemaDepth == 2

\* ------------------------------------------------------------------------
\* Tokens and JSON values
\* ------------------------------------------------------------------------
Q == "\""
\* The Markdown fence (three backticks), one token.
FENCE == "'''"
WS == {" ", "\n"}
Digits == {"0", "1"}
Tokens ==
  {"{", "}", "[", "]", ":", "=", ",", Q, FENCE, "json", "null", "label", "LABEL",
   "confidence", "custom_id", "quote", "classifications", "a", "b"} \cup WS \cup Digits

\* A JSON value as json.loads returns it: k is the Python type
\* (str, num, null, arr = list, obj = dict); "absent" marks a missing key.
Val(k, s, items, members) == [k |-> k, s |-> s, items |-> items, members |-> members]
Absent == Val("absent", <<>>, <<>>, <<>>)
Null == Val("null", <<>>, <<>>, <<>>)
Str(s) == Val("str", s, <<>>, <<>>)
Num(s) == Val("num", s, <<>>, <<>>)
Arr(items) == Val("arr", <<>>, items, <<>>)
Obj(members) == Val("obj", <<>>, <<>>, members)

Tail2(t, i) == IF i > Len(t) THEN <<>> ELSE SubSeq(t, i, Len(t))

\* Index of the first token at or after i that is not whitespace.
RECURSIVE SkipWs(_, _)
SkipWs(t, i) ==
  IF i <= Len(t) /\ t[i] \in WS THEN SkipWs(t, i + 1) ELSE i

\* Length of the longest run of tokens from i on that are not in stop.
RECURSIVE RunLen(_, _, _)
RunLen(t, i, stop) ==
  IF i <= Len(t) /\ t[i] \notin stop THEN 1 + RunLen(t, i + 1, stop) ELSE 0

\* str.strip(): leading and trailing whitespace removed.
RECURSIVE RStrip(_)
RStrip(t) ==
  IF Len(t) > 0 /\ t[Len(t)] \in WS THEN RStrip(SubSeq(t, 1, Len(t) - 1)) ELSE t

Strip(t) == RStrip(Tail2(t, SkipWs(t, 1)))

Fail == [ok |-> FALSE, v |-> Absent, n |-> 0]
Got(v, n) == [ok |-> TRUE, v |-> v, n |-> n]

\* dict semantics: a later member with the same key replaces the earlier one.
PutMember(members, key, v) ==
  LET kept == SelectSeq(members, LAMBDA m: m.key # key)
  IN Append(kept, [key |-> key, val |-> v])

\* json.loads on a string literal starting at i (t[i] is the opening quote):
\* raw newlines are control characters and end the parse with an error.
ParseString(t, i) ==
  LET len == RunLen(t, i + 1, {Q, "\n"})
      close == i + 1 + len
  IN IF i <= Len(t) /\ t[i] = Q /\ close <= Len(t) /\ t[close] = Q
     THEN Got(Str(SubSeq(t, i + 1, close - 1)), close + 1)
     ELSE Fail

\* A JSON number: 0, or 1 followed by digits.
ParseNumber(t, i) ==
  IF i > Len(t) \/ t[i] \notin Digits THEN Fail
  ELSE IF t[i] = "0" THEN Got(Num(<<"0">>), i + 1)
  ELSE LET len == RunLen(t, i, Tokens \ Digits)
       IN Got(Num(SubSeq(t, i, i + len - 1)), i + len)

RECURSIVE ParseValue(_, _), ParseItems(_, _, _), ParseMembers(_, _, _)

\* The value grammar of json.loads (json/decoder.py scan_once) on tokens.
ParseValue(t, i) ==
  IF i > Len(t) THEN Fail
  ELSE IF t[i] = Q THEN ParseString(t, i)
  ELSE IF t[i] \in Digits THEN ParseNumber(t, i)
  ELSE IF t[i] = "null" THEN Got(Null, i + 1)
  ELSE IF t[i] = "[" THEN
    LET j == SkipWs(t, i + 1)
    IN IF j <= Len(t) /\ t[j] = "]" THEN Got(Arr(<<>>), j + 1)
       ELSE ParseItems(t, j, <<>>)
  ELSE IF t[i] = "{" THEN
    LET j == SkipWs(t, i + 1)
    IN IF j <= Len(t) /\ t[j] = "}" THEN Got(Obj(<<>>), j + 1)
       ELSE ParseMembers(t, j, <<>>)
  ELSE Fail

\* Array items from i on; acc holds the items parsed so far.
ParseItems(t, i, acc) ==
  LET r == ParseValue(t, i)
      j == SkipWs(t, r.n)
  IN IF ~r.ok \/ j > Len(t) THEN Fail
     ELSE IF t[j] = "]" THEN Got(Arr(Append(acc, r.v)), j + 1)
     ELSE IF t[j] = "," THEN ParseItems(t, SkipWs(t, j + 1), Append(acc, r.v))
     ELSE Fail

\* Object members from i on; acc holds the members parsed so far.
ParseMembers(t, i, acc) ==
  LET k == ParseString(t, i)
      c == SkipWs(t, k.n)
      r == ParseValue(t, SkipWs(t, c + 1))
      j == SkipWs(t, r.n)
  IN IF ~k.ok \/ c > Len(t) \/ t[c] # ":" THEN Fail
     ELSE IF ~r.ok \/ j > Len(t) THEN Fail
     ELSE IF t[j] = "}" THEN Got(Obj(PutMember(acc, k.v.s, r.v)), j + 1)
     ELSE IF t[j] = "," THEN ParseMembers(t, SkipWs(t, j + 1), PutMember(acc, k.v.s, r.v))
     ELSE Fail

\* json.loads(t): one value, surrounded by optional whitespace, and nothing else.
json_loads(t) ==
  LET r == ParseValue(t, SkipWs(t, 1))
  IN IF r.ok /\ SkipWs(t, r.n) > Len(t) THEN Got(r.v, r.n) ELSE Fail

\* ------------------------------------------------------------------------
\* _safe_parse_model_text (batch_method.py 144-161)
\* ------------------------------------------------------------------------
IsPrefix(p, t) == Len(p) <= Len(t) /\ SubSeq(t, 1, Len(p)) = p

\* re.sub(r"^'''(?:json)?\s*", "", t): the opening fence, an optional json
\* tag and the whitespace after it are removed.
StripFenceOpen(t) ==
  LET j == IF Len(t) >= 2 /\ t[2] = "json" THEN 3 ELSE 2
  IN Tail2(t, SkipWs(t, j))

\* A text that keeps its closing fence.
StripFenceCloseKept(t) == t

\* re.sub(r"\s*'''$", "", t): a closing fence at the end of the text (or
\* right before one final newline) and the whitespace before it are removed.
StripFenceClose(t) ==
  LET e == IF Len(t) >= 2 /\ t[Len(t)] = "\n" /\ t[Len(t) - 1] = FENCE
           THEN Len(t) - 1 ELSE Len(t)
  IN IF e >= 1 /\ t[e] = FENCE
     THEN LET body == RStrip(SubSeq(t, 1, e - 1))
          IN body \o Tail2(t, e + 1)
     ELSE t

Unfence(t) ==
  IF Len(t) >= 1 /\ t[1] = FENCE THEN StripFenceClose(StripFenceOpen(t)) ELSE t

\* Characters the label group [^"}\n]+ of both regular expressions rejects.
LabelStop == {Q, "}", "\n"}

TruncPrefix == <<"{", Q, "label", Q, ":", Q>>

\* A repair that never takes place.
TruncMatchNever(t) == [ok |-> FALSE, label |-> <<>>]

\* re.match(r'^\{"label":"([^"}\n]+)', t): the match is anchored at the
\* start only; group 1 is the longest run of label characters.
TruncMatch(t) ==
  LET len == RunLen(t, Len(TruncPrefix) + 1, LabelStop)
  IN IF IsPrefix(TruncPrefix, t) /\ len >= 1
     THEN [ok |-> TRUE, label |-> SubSeq(t, Len(TruncPrefix) + 1, Len(TruncPrefix) + len)]
     ELSE [ok |-> FALSE, label |-> <<>>]

AllIn(t, from, to, S) == \A j \in from..to : t[j] \in S
AllNotIn(t, from, to, S) == \A j \in from..to : t[j] \notin S

\* The ways r'\s*"?([^"}\n]+)"?\s*$' matches t from position i on:
\* w whitespace tokens, q1 opening quotes, g group tokens, q2 closing quotes,
\* then only whitespace up to the end.
KvSplits(t, i) ==
  {sp \in [w : 0..Len(t), q1 : {0, 1}, g : 1..Len(t), q2 : {0, 1}] :
     LET a == i + sp.w
         b == a + sp.q1
         c == b + sp.g
         d == c + sp.q2
     IN /\ d <= Len(t) + 1
        /\ AllIn(t, i, a - 1, WS)
        /\ (sp.q1 = 1 => t[a] = Q)
        /\ AllNotIn(t, b, c - 1, LabelStop)
        /\ (sp.q2 = 1 => t[c] = Q)
        /\ AllIn(t, d, Len(t), WS)}

\* Backtracking order of the regex engine: every quantifier is greedy, the
\* leftmost one decides first.
KvBetter(x, y) ==
  \/ x.w > y.w
  \/ x.w = y.w /\ x.q1 > y.q1
  \/ x.w = y.w /\ x.q1 = y.q1 /\ x.g > y.g
  \/ x.w = y.w /\ x.q1 = y.q1 /\ x.g = y.g /\ x.q2 > y.q2

\* A recovery that never takes place.
KvMatchNever(t) == [ok |-> FALSE, label |-> <<>>]

\* re.match(r'^\s*label\s*[:=]\s*"?([^"}\n]+)"?\s*$', t, flags=re.I)
KvMatch(t) ==
  LET k == SkipWs(t, 1)
      s == SkipWs(t, k + 1)
      splits == KvSplits(t, s + 1)
      best == CHOOSE x \in splits : \A y \in splits : x = y \/ KvBetter(x, y)
      from == s + 1 + best.w + best.q1
  IN IF /\ k <= Len(t) /\ t[k] \in {"label", "LABEL"}
        /\ s <= Len(t) /\ t[s] \in {":", "="}
        /\ splits # {}
     THEN [ok |-> TRUE, label |-> SubSeq(t, from, from + best.g - 1)]
     ELSE [ok |-> FALSE, label |-> <<>>]

NoteNone == "None"
NoteTruncated == "Truncated JSON repaired"
NoteRecovered == "Non-JSON label recovered"
NoteUnparsable == "Unparsable JSON text"

LabelDict(s) == Obj(<<[key |-> <<"label">>, val |-> Str(s)]>>)

\* Returns (parsed, note); parsed is None when nothing could be recovered,
\* and the note then carries the first 80 characters of the text.
TextLimit == 80
Parsed(v, note, raw) == [none |-> FALSE, v |-> v, note |-> note, raw |-> raw]

_safe_parse_model_text(s) ==
  LET t == Unfence(Strip(s))
      direct == json_loads(t)
      m == TruncMatch(t)
      m2 == KvMatch(t)
  IN IF direct.ok THEN Parsed(direct.v, NoteNone, <<>>)
     ELSE IF m.ok THEN Parsed(LabelDict(m.label), NoteTruncated, <<>>)
     ELSE IF m2.ok THEN Parsed(LabelDict(m2.label), NoteRecovered, <<>>)
     ELSE [none |-> TRUE, v |-> Absent, note |-> NoteUnparsable,
           raw |-> SubSeq(t, 1, IF Len(t) < TextLimit THEN Len(t) ELSE TextLimit)]

\* ------------------------------------------------------------------------
\* Output and error files, rows
\* ------------------------------------------------------------------------
\* One line of a provider file.  shape tells how much of the envelope
\* res['response']['body']['output'][0]['content'][0]['text'] is there:
\* "ok" all of it, "blank" an empty line, "bad_line" a line that is not
\* JSON, the others the first key (or list element) that is missing.
EnvelopeShapes ==
  {"ok", "blank", "bad_line", "no_response", "no_body", "no_output",
   "empty_output", "no_content", "empty_content", "no_text"}
Rec(id, shape, quote, text) ==
  [custom_id |-> id, shape |-> shape, quote |-> quote, text |-> text]

NoFile == [present |-> FALSE, recs |-> <<>>]
File(recs) == [present |-> TRUE, recs |-> recs]

\* A row of the exported table; a column the row has no value for is Absent.
Row(id, quote, label, confidence, note, raw) ==
  [custom_id |-> id, quote |-> quote, label |-> label, confidence |-> confidence,
   repair_note |-> note, raw_text |-> raw]
Cols == {"custom_id", "quote", "label", "confidence"}

\* dict lookup: the value of key in a parsed object, Absent without the key.
Lookup(v, key) ==
  LET hits == SelectSeq(v.members, LAMBDA m: m.key = <<key>>)
  IN IF Len(hits) = 0 THEN Absent ELSE hits[1].val

Has(v, key) == Lookup(v, key) # Absent

\* {"custom_id": res.get("custom_id"), **metadata, **parsed} and the
\* repair note set after the merge: a key of parsed replaces the same key
\* of the metadata and of the envelope.
Combine(rec, p) ==
  Row(IF Has(p.v, "custom_id") THEN Lookup(p.v, "custom_id") ELSE rec.custom_id,
      IF Has(p.v, "quote") THEN Lookup(p.v, "quote") ELSE rec.quote,
      Lookup(p.v, "label"),
      Lookup(p.v, "confidence"),
      IF p.note # NoteNone THEN Str(<<p.note>>) ELSE Absent,
      Absent)

\* The bad_rows entry of a text nothing could be recovered from.
BadRow(rec) ==
  [custom_id |-> rec.custom_id,
   quote |-> IF rec.quote = Absent THEN Str(<<>>) ELSE rec.quote,
   raw_text |-> Str(rec.text)]

\* ------------------------------------------------------------------------
\* to_long_df (data_conversion.py 40-71)
\* ------------------------------------------------------------------------
Get(row, c) ==
  CASE c = "custom_id" -> row.custom_id
    [] c = "quote" -> row.quote
    [] c = "label" -> row.label
    [] c = "confidence" -> row.confidence

IsNA(v) == v.k \in {"absent", "null"}

\* Columns holding a list in at least one row.
ListCols(rows) ==
  {c \in Cols : \E i \in 1..Len(rows) : Get(rows[i], c).k = "arr"}

\* Number of rows DataFrame.explode makes of a cell: a list gives one row
\* per element, an empty list and a scalar give one row.
CellCount(v) == IF v.k = "arr" /\ Len(v.items) > 0 THEN Len(v.items) ELSE 1

\* The cell of the n-th exploded row: the n-th element of a list, NaN for an
\* empty list, the scalar itself otherwise.
CellAt(v, n) ==
  IF v.k # "arr" THEN v
  ELSE IF Len(v.items) = 0 THEN Null
  ELSE v.items[n]

RowCount(row, lc) ==
  IF lc = {} THEN 1 ELSE CellCount(Get(row, CHOOSE c \in lc : TRUE))

\* explode raises ValueError when the list columns of a row differ in length.
ExplodeRaises(rows, lc) ==
  \E i \in 1..Len(rows) : \E c, d \in lc :
     CellCount(Get(rows[i], c)) # CellCount(Get(rows[i], d))

ExplodeRow(row, lc) ==
  [n \in 1..RowCount(row, lc) |->
     Row(IF "custom_id" \in lc THEN CellAt(row.custom_id, n) ELSE row.custom_id,
         IF "quote" \in lc THEN CellAt(row.quote, n) ELSE row.quote,
         IF "label" \in lc THEN CellAt(row.label, n) ELSE row.label,
         IF "confidence" \in lc THEN CellAt(row.confidence, n) ELSE row.confidence,
         row.repair_note, row.raw_text)]

RECURSIVE Explode(_, _)
Explode(rows, lc) ==
  IF rows = <<>> THEN <<>>
  ELSE ExplodeRow(Head(rows), lc) \o Explode(Tail(rows), lc)

\* A table that keeps the rows explode made of null elements and empty lists.
DropNAKept(rows, lc) == rows

\* dropna(subset=list_cols, how='any')
DropNA(rows, lc) ==
  SelectSeq(rows, LAMBDA r: \A c \in lc : ~IsNA(Get(r, c)))

to_long_df(records) ==
  LET lc == ListCols(records)
  IN IF lc = {} THEN records ELSE DropNA(Explode(records, lc), lc)

\* ------------------------------------------------------------------------
\* handle_batch_fail and get_batch_results
\* ------------------------------------------------------------------------
\* What one get_batch_results call did: the branch it took, the exception
\* that left it ("none": it returned None), whether the "Batch Failed"
\* dialog was shown, the two lists its loop collected, the table handed to
\* save_as_csv (df) or built by handle_batch_fail (error_rows), the user's
\* answers to the save dialogs, and what was written: csv, error_csv and
\* error_jsonl.  Nothing else leaves the call.
Outcome(path, err, dialog, responses, bad, df, errrows, errfile, saved, savedRaw) ==
  [path |-> path, raised |-> err # "none", err |-> err, dialog |-> dialog,
   responses |-> responses, bad_rows |-> bad, df |-> df, error_rows |-> errrows,
   saved |-> saved, savedRaw |-> savedRaw,
   csv |-> IF saved THEN df ELSE <<>>,
   error_csv |-> IF saved THEN errrows ELSE <<>>,
   error_jsonl |-> IF savedRaw THEN errfile ELSE <<>>]

Raised(path, err, dialog, responses, bad) ==
  Outcome(path, err, dialog, responses, bad, <<>>, <<>>, <<>>, FALSE, FALSE)

NotCalled == Raised("none", "none", FALSE, <<>>, <<>>)

\* The exception a line of the error file raises in handle_batch_fail:
\* json.loads(line) on a line that is not JSON (an empty line included),
\* individual_batch['response']['body']['error'] on a missing key.
ErrorLineError(rec) ==
  CASE rec.shape = "ok" -> "none"
    [] rec.shape \in {"blank", "bad_line"} -> "JSONDecodeError"
    [] OTHER -> "KeyError"

RECURSIVE FirstError(_)
FirstError(recs) ==
  IF recs = <<>> THEN "none"
  ELSE IF ErrorLineError(Head(recs)) # "none" THEN ErrorLineError(Head(recs))
  ELSE FirstError(Tail(recs))

\* A report that stops after the first record of the error file.
handle_batch_fail_first(job, saved, savedRaw) ==
  IF ~job.err.present \/ job.err.recs = <<>>
  THEN Raised("fail_report", "ValueError", TRUE, <<>>, <<>>)
  ELSE Outcome("fail_report", "none", TRUE, <<>>, <<>>, <<>>,
               <<job.err.recs[1].error>>, job.err.recs, saved, savedRaw)

\* client.files.content(None) raises before any request is sent.
handle_batch_fail(job, saved, savedRaw) ==
  IF ~job.err.present
  THEN Raised("fail_report", "ValueError", TRUE, <<>>, <<>>)
  ELSE IF FirstError(job.err.recs) # "none"
  THEN Raised("fail_report", FirstError(job.err.recs), TRUE, <<>>, <<>>)
  ELSE Outcome("fail_report", "none", TRUE, <<>>, <<>>, <<>>,
               [i \in 1..Len(job.err.recs) |-> job.err.recs[i].error],
               job.err.recs, saved, savedRaw)

\* The exception the envelope navigation of a record raises, "none" if the
\* text field is there.
EnvelopeError(rec) ==
  CASE rec.shape = "ok" -> "none"
    [] rec.shape \in {"empty_output", "empty_content"} -> "IndexError"
    [] OTHER -> "KeyError"

\* The loop over the parsed lines (batch_method.py 200-217); acc is
\* (responses, bad_rows, exception) so far.  An exception ends the loop.
RECURSIVE Loop(_, _)

\* One pass of the loop body on the record res, whose text parsed to p.
\* json.loads gives None for the text null, and **parsed raises TypeError
\* for a value that is not a dict.
LoopBody(results, acc, res, p) ==
  IF EnvelopeError(res) # "none"
  THEN [acc EXCEPT !.err = EnvelopeError(res)]
  ELSE IF p.none \/ p.v.k = "null"
  THEN Loop(Tail(results), [acc EXCEPT !.bad_rows = Append(@, BadRow(res))])
  ELSE IF p.v.k # "obj"
  THEN [acc EXCEPT !.err = "TypeError"]
  ELSE Loop(Tail(results), [acc EXCEPT !.responses = Append(@, Combine(res, p))])

Loop(results, acc) ==
  IF results = <<>> THEN acc
  ELSE LoopBody(results, acc, Head(results), _safe_parse_model_text(Head(results).text))

\* df = to_long_df(responses); save_as_csv(df), or the exception that ended
\* the loop or that explode raised.
SaveTable(acc, saved) ==
  IF acc.err # "none"
  THEN Raised("reconcile", acc.err, FALSE, acc.responses, acc.bad_rows)
  ELSE IF ExplodeRaises(acc.responses, ListCols(acc.responses))
  THEN Raised("reconcile", "ValueError", FALSE, acc.responses, acc.bad_rows)
  ELSE Outcome("reconcile", "none", FALSE, acc.responses, acc.bad_rows,
               to_long_df(acc.responses), <<>>, <<>>, saved, FALSE)

\* The lines of the output file that are not blank: json.loads of each
\* (a line that is not JSON raises before the loop starts), then the loop.
ParseLines(lines, saved) ==
  IF \E i \in 1..Len(lines) : lines[i].shape = "bad_line"
  THEN Raised("reconcile", "JSONDecodeError", FALSE, <<>>, <<>>)
  ELSE SaveTable(Loop(lines, [responses |-> <<>>, bad_rows |-> <<>>, err |-> "none"]),
                 saved)

get_batch_results(job, saved, savedRaw) ==
  IF ~job.out.present THEN handle_batch_fail(job, saved, savedRaw)
  ELSE ParseLines(SelectSeq(job.out.recs, LAMBDA l: l.shape # "blank"), saved)

\* ------------------------------------------------------------------------
\* Sample texts, records and payloads
\* ------------------------------------------------------------------------
LabelObj(x) == <<"{", Q, "label", Q, ":", Q>> \o x \o <<Q, "}">>
TGood == LabelObj(<<"a">>)
TOther == LabelObj(<<"b">>)
TGarbage == <<"a", " ", "b">>
TBrace == <<"{", "a">>
TKeyValue == <<"label", ":", " ", "a">>
TNumber == <<"1">>
TOverride ==
  <<"{", Q, "label", Q, ":", Q, "a", Q, ",", Q, "custom_id", Q, ":", Q, "b", Q, "}">>
TTruncated == <<"{", Q, "label", Q, ":", Q, "a">>
TTruncatedWords == <<"{", Q, "label", Q, ":", Q, "a", " ", "b">>
\* A complete object followed by more text.
TTrailing == TGood \o <<" ", "b">>
TFenced == <<FENCE, "\n">> \o TGood \o <<"\n", FENCE>>
TFencedJson == <<FENCE, "json", "\n">> \o TOther \o <<"\n", FENCE, "\n">>
TKeyValueQuoted == <<"LABEL", " ", "=", " ", Q, "b", Q>>
TMulti == <<"{", Q, "label", Q, ":", "[", Q, "a", Q, ",", Q, "b", Q, "]", "}">>
TMultiNull == <<"{", Q, "label", Q, ":", "[", Q, "a", Q, ",", "null", "]", "}">>
TMultiEmpty == <<"{", Q, "label", Q, ":", "[", "]", "}">>
\* A text one character longer than the part of it the note keeps.
TLong == [i \in 1..(TextLimit + 1) |-> IF i % 2 = 1 THEN "a" ELSE "b"]

\* Answers with a confidence, and the answers the command-line
\* application asks for: a list of classifications, each a quote, a label
\* and a confidence.
ConfidenceKey(digit) == <<",", Q, "confidence", Q, ":", digit>>
TConfZero == <<"{", Q, "label", Q, ":", Q, "a", Q>> \o ConfidenceKey("0") \o <<"}">>
TConfOne == <<"{", Q, "label", Q, ":", Q, "b", Q>> \o ConfidenceKey("1") \o <<"}">>
Classification(label, more) ==
  <<"{", Q, "quote", Q, ":", Q, "a", Q, ",", Q, "label", Q, ":", Q, label, Q>>
    \o more \o <<"}">>
Classifications(items) ==
  <<"{", Q, "classifications", Q, ":", "[">> \o items \o <<"]", "}">>
TClassNone == Classifications(Classification("a", <<>>))
TClassZero == Classifications(Classification("b", ConfidenceKey("0")))
TClassOne == Classifications(Classification("b", ConfidenceKey("1")))
TClassTwo ==
  Classifications(Classification("a", ConfidenceKey("1")) \o <<",">>
                    \o Classification("b", <<>>))
ConfidenceTexts == {TGood, TConfZero, TConfOne, TGarbage}
ClassificationTexts == {TClassNone, TClassZero, TClassOne, TClassTwo, TGood, TGarbage}

Ids == <<"r1", "r2", "r3", "r4", "r5">>
Quotes == <<"q1", "q2", "q3", "q4", "q5">>
OkRec(i, text) == Rec(Str(<<Ids[i]>>), "ok", Str(<<Quotes[i]>>), text)
ShapeRec(i, shape) == Rec(Str(<<Ids[i]>>), shape, Str(<<Quotes[i]>>), TGood)

ErrRec(i, shape, code) ==
  [custom_id |-> Str(<<Ids[i]>>), shape |-> shape,
   error |-> [code |-> code, message |-> "m"]]

\* What a user submits: a label list and a text list.  The provider's
\* answer to a payload is fixed: every text labelled, or one answer garbage.
Payloads == {"good", "mixed"}
OutputFor(p) ==
  IF p = "good" THEN <<OkRec(1, TGood), OkRec(2, TOther)>>
  ELSE <<OkRec(1, TGood), OkRec(2, TGarbage)>>
ErrorsFor(p) == <<ErrRec(1, "ok", "invalid_request"), ErrRec(2, "ok", "server_error")>>

\* ------------------------------------------------------------------------
\* forbid_additional_props and the request encoders (batch_creation.py)
\* ------------------------------------------------------------------------
\* A JSON schema node.  type is the value of its "type" key ("none": no
\* such key; a node with a $ref has none); hasProps tells whether the
\* "properties" key is there; addl is the "additionalProperties" key
\* ("absent", "false" or "true"); props, patternProps and defs are lists of
\* (name, schema); items holds the "items" schema if there is one; oneOf,
\* anyOf and allOf are the lists of branches (empty: no such key).
Schema(type, hasProps, props, patternProps, addl, items, oneOf, anyOf, allOf, enum, defs) ==
  [type |-> type, hasProps |-> hasProps, props |-> props, patternProps |-> patternProps,
   addl |-> addl, items |-> items, oneOf |-> oneOf, anyOf |-> anyOf, allOf |-> allOf,
   enum |-> enum, defs |-> defs]

Named(name, schema) == [name |-> name, schema |-> schema]

RECURSIVE forbid_additional_props(_)
\* forbid_additional_props on the schemas (name, schema) of a key.
ForbidNamed(named) ==
  [i \in 1..Len(named) |-> Named(named[i].name, forbid_additional_props(named[i].schema))]
ForbidEach(schemas) ==
  [i \in 1..Len(schemas) |-> forbid_additional_props(schemas[i])]

\* The object branch (lines 28-38): the properties map is created if it is
\* missing, additionalProperties is set to false, and every property and
\* pattern property is visited.
ForbidObject(schema) ==
  IF schema.type = "object"
  THEN [schema EXCEPT !.hasProps = TRUE, !.addl = "false",
                      !.props = ForbidNamed(@), !.patternProps = ForbidNamed(@)]
  ELSE schema

\* An array branch that leaves the items as they are.
ForbidItemsSkipped(schema) == schema

\* The array branch (lines 41-42): items is visited when the node is typed
\* array.
ForbidItems(schema) ==
  IF schema.type = "array" /\ Len(schema.items) > 0
  THEN [schema EXCEPT !.items = ForbidEach(@)]
  ELSE schema

\* The combinator branch (lines 45-48).
ForbidBranches(schema) ==
  [schema EXCEPT !.oneOf = ForbidEach(@), !.anyOf = ForbidEach(@), !.allOf = ForbidEach(@)]

forbid_additional_props(schema) == ForbidBranches(ForbidItems(ForbidObject(schema)))

\* make_str_enum: Enum(name, {v: v for v in values}): the distinct labels
\* in the order of their first occurrence.
RECURSIVE make_str_enum(_)
make_str_enum(values) ==
  IF values = <<>> THEN <<>>
  ELSE LET rest == SelectSeq(Tail(values), LAMBDA v: v # Head(values))
       IN <<Head(values)>> \o make_str_enum(rest)

StringSchema == Schema("string", FALSE, <<>>, <<>>, "absent", <<>>, <<>>, <<>>, <<>>, <<>>, <<>>)
EnumSchema(labels_enum) ==
  Schema("string", FALSE, <<>>, <<>>, "absent", <<>>, <<>>, <<>>, <<>>, labels_enum, <<>>)
RefSchema == Schema("none", FALSE, <<>>, <<>>, "absent", <<>>, <<>>, <<>>, <<>>, <<>>, <<>>)
ArraySchema(items) ==
  Schema("array", FALSE, <<>>, <<>>, "absent", <<items>>, <<>>, <<>>, <<>>, <<>>, <<>>)

\* model_json_schema() of the three response models; extra='forbid' makes
\* pydantic write additionalProperties: false at the root, and the enum is
\* a definition the label property refers to.
LabeledQuote(labels_enum) ==
  Schema("object", TRUE, <<Named("label", RefSchema)>>, <<>>, "false", <<>>, <<>>, <<>>,
         <<>>, <<>>, <<Named("Label", EnumSchema(labels_enum))>>)
LabeledQuoteMulti(labels_enum) ==
  Schema("object", TRUE, <<Named("label", ArraySchema(RefSchema))>>, <<>>, "false", <<>>,
         <<>>, <<>>, <<>>, <<>>, <<Named("Label", EnumSchema(labels_enum))>>)
KeywordExtraction ==
  Schema("object", TRUE, <<Named("keywords", ArraySchema(StringSchema))>>, <<>>, "false",
         <<>>, <<>>, <<>>, <<>>, <<>>, <<>>)

\* The decimal digits of n.
DecimalChars == <<"0", "1", "2", "3", "4", "5", "6", "7", "8", "9">>
RECURSIVE DecimalDigits(_)
DecimalDigits(n) ==
  IF n < 10 THEN <<DecimalChars[n + 1]>>
  ELSE Append(DecimalDigits(n \div 10), DecimalChars[(n % 10) + 1])

\* f"{i:05d}": the digits of i, with zeros in front up to five characters.
IdWidth == 5
Zeros(n) == [k \in 1..n |-> "0"]
ZeroPadded(digits) ==
  IF Len(digits) >= IdWidth THEN digits ELSE Zeros(IdWidth - Len(digits)) \o digits

\* Ids counted from zero, as a plain enumerate(quotes) would.
CustomIdFromZero(prefix, i) == <<prefix, "-">> \o ZeroPadded(DecimalDigits(i - 1))

\* f"quote-{i:05d}" and f"text-{i:05d}"
CustomId(prefix, i) == <<prefix, "-">> \o ZeroPadded(DecimalDigits(i))

\* One line of the JSONL payload.
Request(prefix, i, q, name, schema) ==
  [custom_id |-> CustomId(prefix, i), method |-> "POST", url |-> "/v1/responses",
   content |-> q, format |-> [type |-> "json_schema", name |-> name, schema |-> schema,
                              strict |-> TRUE],
   metadata |-> [quote |-> q]]

\* Lines that all carry the number of the first.
LinesUnnumbered(prefix, quotes, name, schema) ==
  [i \in 1..Len(quotes) |-> Request(prefix, 1, quotes[i], name, schema)]

\* for i, q in enumerate(quotes, 1): one line per item, in the order given.
Lines(prefix, quotes, name, schema) ==
  [i \in 1..Len(quotes) |-> Request(prefix, i, quotes[i], name, schema)]

\* What a generate_*_batch call returned: the buffer (a list of lines), or
\* the exception that left it.
Encoded(payload) == [raised |-> FALSE, err |-> "none", payload |-> payload]

generate_single_label_batch(labels, quotes) ==
  Encoded(Lines("quote", quotes, "LabeledQuote",
                forbid_additional_props(LabeledQuote(make_str_enum(labels)))))

generate_multi_label_batch(labels, quotes) ==
  Encoded(Lines("quote", quotes, "LabeledQuoteMulti",
                forbid_additional_props(LabeledQuoteMulti(make_str_enum(labels)))))

generate_keyword_extraction_batch(texts) ==
  Encoded(Lines("text", texts, "KeywordExtraction",
                forbid_additional_props(KeywordExtraction)))

BatchTypes == {"single_label", "multi_label", "keyword_extraction"}

\* The encoder send_batch picks for a batch type (batch_method.py 60-102).
Encode(type, labels, quotes) ==
  CASE type = "single_label" -> generate_single_label_batch(labels, quotes)
    [] type = "multi_label" -> generate_multi_label_batch(labels, quotes)
    [] type = "keyword_extraction" -> generate_keyword_extraction_batch(quotes)
    [] OTHER -> [raised |-> TRUE, err |-> "ValueError", payload |-> <<>>]

\* ------------------------------------------------------------------------
\* The command-line application's parser (json_handler.py 340-509)
\* ------------------------------------------------------------------------
\* The value of a run of decimal digits.
RECURSIVE DigitsValue(_)
DigitsValue(digits) ==
  IF digits = <<>> THEN 0
  ELSE 10 * DigitsValue(SubSeq(digits, 1, Len(digits) - 1))
       + (IF digits[Len(digits)] = "1" THEN 1 ELSE 0)

\* str(x) of a parsed value: a string is itself, a number its digits, None
\* the word None; of a list or a dict only that it is not blank is kept.
StrOf(v) ==
  CASE v.k = "str" -> v.s
    [] v.k = "num" -> v.s
    [] v.k = "null" -> <<"None">>
    [] OTHER -> <<"repr">>

\* float(x): a number is itself, a string of digits its number, any other
\* string raises ValueError, None, a list and a dict raise TypeError.
Float(v) ==
  CASE v.k = "num" -> [ok |-> TRUE, v |-> v]
    [] v.k = "str" /\ v.s # <<>> /\ AllIn(v.s, 1, Len(v.s), Digits) ->
         [ok |-> TRUE, v |-> Num(v.s)]
    [] OTHER -> [ok |-> FALSE, v |-> Absent]

Blank(s) == AllIn(s, 1, Len(s), WS)

\* item_data.get('confidence', 0.0)
DefaultConfidence(v) == IF v = Absent THEN Num(<<"0">>) ELSE v

\* ClassificationItem(quote=str(..), label=str(..), confidence=float(..))
\* with its __post_init__ (models/classification.py 35-44): ok is FALSE when
\* float or the validation raises.
NewItem(item_data) ==
  [ok |-> /\ Float(DefaultConfidence(Lookup(item_data, "confidence"))).ok
          /\ ~Blank(StrOf(IF Has(item_data, "quote")
                           THEN Lookup(item_data, "quote") ELSE Str(<<>>)))
          /\ ~Blank(StrOf(IF Has(item_data, "label")
                           THEN Lookup(item_data, "label") ELSE Str(<<>>)))
          /\ DigitsValue(Float(DefaultConfidence(Lookup(item_data, "confidence"))).v.s) <= 1,
   quote |-> StrOf(IF Has(item_data, "quote") THEN Lookup(item_data, "quote") ELSE Str(<<>>)),
   label |-> StrOf(IF Has(item_data, "label") THEN Lookup(item_data, "label") ELSE Str(<<>>)),
   confidence |-> Float(DefaultConfidence(Lookup(item_data, "confidence"))).v]

\* validate_classification_response: the items of the response, or raised
\* when the response is not a dict with a non-empty classifications list
\* of dicts that each make a valid item.
validate_classification_response(response_data) ==
  IF response_data.k # "obj" THEN [raised |-> TRUE, items |-> <<>>]
  ELSE IF Lookup(response_data, "classifications").k # "arr"
  THEN [raised |-> TRUE, items |-> <<>>]
  ELSE IF Lookup(response_data, "classifications").items = <<>>
  THEN [raised |-> TRUE, items |-> <<>>]
  ELSE IF \E i \in 1..Len(Lookup(response_data, "classifications").items) :
            \/ Lookup(response_data, "classifications").items[i].k # "obj"
            \/ ~NewItem(Lookup(response_data, "classifications").items[i]).ok
  THEN [raised |-> TRUE, items |-> <<>>]
  ELSE [raised |-> FALSE,
        items |-> [i \in 1..Len(Lookup(response_data, "classifications").items) |->
                     NewItem(Lookup(response_data, "classifications").items[i])]]

\* parse_batch_response_line: the items of one line, none for a blank
\* line, a line without text and any exception of json.loads or of the
\* validation.
ValidatedLine(parsed) ==
  IF ~parsed.ok THEN <<>>
  ELSE validate_classification_response(parsed.v).items
parse_batch_response_line(rec) ==
  IF rec.shape # "ok" THEN <<>> ELSE ValidatedLine(json_loads(rec.text))

\* parse_batch_response_jsonl: the items of all lines, in order; raises
\* when there is none.
RECURSIVE AllClassifications(_)
AllClassifications(recs) ==
  IF recs = <<>> THEN <<>>
  ELSE parse_batch_response_line(Head(recs)) \o AllClassifications(Tail(recs))

\* ------------------------------------------------------------------------
\* State
\* ------------------------------------------------------------------------
VARIABLES
  files,      \* provider: the uploaded payloads; a file id is an index
  jobs,       \* provider: the batch jobs; a job id is an index
  calls,      \* the send_batch calls made so far and how far each got
  listed,     \* caller: the (ongoing, done) tables of the last list_batches
  cancelRet,  \* caller: what the last cancel_batch call returned
  rd,         \* caller: the last get_batch_status / get_batch_results call
  enc,        \* caller: the last generate_*_batch / forbid_additional_props call
  ui          \* desktop window: worker threads, scheduled callbacks, dialogs

vars == <<files, jobs, calls, listed, cancelRet, rd, enc, ui>>

Job(status, input, payload, out, err) ==
  [status |-> status, input |-> input, payload |-> payload, out |-> out, err |-> err]

\* A send_batch call: where it is, the payload it was given, the file and
\* the job it created (0: none) and the number of upload and registration
\* requests it has sent.
Call(pc, payload, file, job, uploads, creates) ==
  [pc |-> pc, payload |-> payload, file |-> file, job |-> job,
   uploads |-> uploads, creates |-> creates]

NoCancel == [id |-> 0, raised |-> FALSE, status |-> "none"]
NoRead ==
  [op |-> "none", id |-> 0, job |-> Job("none", 0, "none", NoFile, NoFile),
   res |-> NotCalled, dirty |-> FALSE, repeat |-> "first"]
NoTables == [ongoing |-> <<>>, done |-> <<>>]
NoEnc ==
  [op |-> "none", done |-> FALSE, type |-> "none", labels |-> <<>>, quotes |-> <<>>,
   res |-> Encoded(<<>>), schema |-> StringSchema, strict |-> StringSchema]

\* A worker thread of the window: the operation it runs, where it is, the
\* job it was started for (0: none), the tables its list_batches call
\* returned with the number of that call (0: none yet), and whether an
\* exception was raised in it.
Worker(kind, pc, job, snap, seq, raised) ==
  [kind |-> kind, pc |-> pc, job |-> job, snap |-> snap, seq |-> seq, raised |-> raised]

\* The window: its worker threads in the order they were started, the
\* callbacks handed to parent.after that have not run yet, the worker whose
\* tables are shown (0: none), the number of list_batches calls made, the
\* workers an error dialog was shown for and the workers whose callback
\* raised instead.
NoUi ==
  [workers |-> <<>>, queue |-> <<>>, shown |-> 0, fetches |-> 0,
   dialogs |-> {}, broken |-> {}]

\* ------------------------------------------------------------------------
\* The provider
\* ------------------------------------------------------------------------
\* The states a job can move to on the provider's own schedule.
ProviderNext(job) ==
  CASE job.status = "validating" ->
         {[job EXCEPT !.status = "in_progress"],
          [job EXCEPT !.status = "failed"],
          [job EXCEPT !.status = "failed", !.err = File(ErrorsFor(job.payload))]}
    [] job.status = "in_progress" ->
         {[job EXCEPT !.status = "finalizing"],
          [job EXCEPT !.status = "expired"]}
    [] job.status = "finalizing" ->
         {[job EXCEPT !.status = "completed", !.out = File(OutputFor(job.payload))],
          [job EXCEPT !.status = "completed", !.err = File(ErrorsFor(job.payload))]}
    [] job.status = "cancelling" ->
         {[job EXCEPT !.status = "cancelled"],
          [job EXCEPT !.status = "cancelled",
                      !.out = File(SubSeq(OutputFor(job.payload), 1, 1))]}
    [] OTHER -> {}

Advance(j) ==
  /\ \E nj \in ProviderNext(jobs[j]) : jobs' = [jobs EXCEPT ![j] = nj]
  /\ rd' = [rd EXCEPT !.dirty = TRUE]
  /\ UNCHANGED <<files, calls, listed, cancelRet, enc, ui>>

\* client.batches.list(limit): the most recent jobs, newest first.
ProviderList(js, limit) ==
  LET n == IF Len(js) < limit THEN Len(js) ELSE limit
  IN [i \in 1..n |-> [id |-> Len(js) + 1 - i, status |-> js[Len(js) + 1 - i].status]]

\* ------------------------------------------------------------------------
\* send_batch (batch_method.py 40-126)
\* ------------------------------------------------------------------------
StartSubmit(p) ==
  /\ Len(calls) < MaxCalls
  /\ calls' = Append(calls, Call("upload", p, 0, 0, 0, 0))
  /\ UNCHANGED <<files, jobs, listed, cancelRet, rd, enc, ui>>

\* Upload with a retry: a failed first request is sent again.
UploadRetrying(c) ==
  /\ calls[c].pc = "upload"
  /\ \E ok \in BOOLEAN :
       IF ok
       THEN /\ files' = Append(files, calls[c].payload)
            /\ calls' = [calls EXCEPT ![c].pc = "create", ![c].file = Len(files) + 1,
                                      ![c].uploads = @ + 1]
            /\ rd' = [rd EXCEPT !.dirty = TRUE]
       ELSE /\ calls' = [calls EXCEPT ![c].pc = IF calls[c].uploads = 0 THEN "upload"
                                                ELSE "raised",
                                      ![c].uploads = @ + 1]
            /\ UNCHANGED <<files, rd>>
  /\ UNCHANGED <<jobs, listed, cancelRet, enc, ui>>

\* client.files.create: the payload is stored, or the request fails and the
\* exception leaves send_batch.
Upload(c) ==
  /\ calls[c].pc = "upload"
  /\ \E ok \in BOOLEAN :
       IF ok
       THEN /\ files' = Append(files, calls[c].payload)
            /\ calls' = [calls EXCEPT ![c].pc = "create", ![c].file = Len(files) + 1,
                                      ![c].uploads = @ + 1]
            /\ rd' = [rd EXCEPT !.dirty = TRUE]
       ELSE /\ calls' = [calls EXCEPT ![c].pc = "raised", ![c].uploads = @ + 1]
            /\ UNCHANGED <<files, rd>>
  /\ UNCHANGED <<jobs, listed, cancelRet, enc, ui>>

\* client.batches.create: one job referencing the uploaded file is
\* registered, or the request fails and the exception leaves send_batch.
Create(c) ==
  /\ calls[c].pc = "create"
  /\ \E ok \in BOOLEAN :
       IF ok
       THEN /\ jobs' = Append(jobs, Job("validating", calls[c].file,
                                        calls[c].payload, NoFile, NoFile))
            /\ calls' = [calls EXCEPT ![c].pc = "returned", ![c].job = Len(jobs) + 1,
                                      ![c].creates = @ + 1]
            /\ rd' = [rd EXCEPT !.dirty = TRUE]
       ELSE /\ calls' = [calls EXCEPT ![c].pc = "raised", ![c].creates = @ + 1]
            /\ UNCHANGED <<jobs, rd>>
  /\ UNCHANGED <<files, listed, cancelRet, enc, ui>>

\* ------------------------------------------------------------------------
\* cancel_batch (batch_method.py 224-235)
\* ------------------------------------------------------------------------
Cancellable == {"validating", "in_progress", "finalizing"}

\* Cancel that comes back only when the provider has cancelled the job.
CancelWaiting(j) ==
  /\ IF jobs[j].status \in Cancellable
     THEN /\ jobs' = [jobs EXCEPT ![j].status = "cancelled"]
          /\ cancelRet' = [id |-> j, raised |-> FALSE, status |-> jobs'[j].status]
          /\ rd' = [rd EXCEPT !.dirty = TRUE]
     ELSE /\ cancelRet' = [id |-> j, raised |-> TRUE, status |-> "none"]
          /\ UNCHANGED <<jobs, rd>>
  /\ UNCHANGED <<files, calls, listed, enc, ui>>

\* client.batches.cancel: the provider marks the job cancelling and answers
\* at once with the job as it is then; a job that can no longer be
\* cancelled makes the request fail.
Cancel(j) ==
  /\ IF jobs[j].status \in Cancellable
     THEN /\ jobs' = [jobs EXCEPT ![j].status = "cancelling"]
          /\ cancelRet' = [id |-> j, raised |-> FALSE, status |-> jobs'[j].status]
          /\ rd' = [rd EXCEPT !.dirty = TRUE]
     ELSE /\ cancelRet' = [id |-> j, raised |-> TRUE, status |-> "none"]
          /\ UNCHANGED <<jobs, rd>>
  /\ UNCHANGED <<files, calls, listed, enc, ui>>

\* ------------------------------------------------------------------------
\* list_batches (batch_method.py 238-282)
\* ------------------------------------------------------------------------
max_batches == 4
\* The status set with cancelling forgotten.
ongoing_statuses_without_cancelling == {"validating", "in_progress", "finalizing"}
ongoing_statuses == {"validating", "in_progress", "cancelling", "finalizing"}

\* A listing that files under done only the end statuses it knows.
list_batches_known(batches) ==
  [ongoing |-> SelectSeq(batches, LAMBDA b: b.status \in ongoing_statuses),
   done |-> SelectSeq(batches, LAMBDA b: b.status \in {"completed", "failed", "cancelled"})]

list_batches(batches) ==
  [ongoing |-> SelectSeq(batches, LAMBDA b: b.status \in ongoing_statuses),
   done |-> SelectSeq(batches, LAMBDA b: b.status \notin ongoing_statuses)]

ListBatches ==
  /\ listed' = list_batches(ProviderList(jobs, max_batches))
  /\ UNCHANGED <<files, jobs, calls, cancelRet, rd, enc, ui>>

\* ------------------------------------------------------------------------
\* get_batch_status (batch_method.py 129-140), get_batch_results (164-221)
\* ------------------------------------------------------------------------
\* What a caller can tell two results apart by: everything but the answers
\* the user gave to the save dialogs and the files written after them.
Visible(res) ==
  [res EXCEPT !.saved = FALSE, !.savedRaw = FALSE, !.csv = <<>>,
              !.error_csv = <<>>, !.error_jsonl = <<>>]

\* A read records what it returned and whether it repeats the read before
\* it (same call, same job, nothing changed at the provider in between) with
\* the same or with a different result.
Read(op, j, job, res) ==
  [op |-> op, id |-> j, job |-> job, res |-> res, dirty |-> FALSE,
   repeat |-> IF rd.op = op /\ rd.id = j /\ ~rd.dirty
              THEN IF rd.job = job /\ Visible(rd.res) = Visible(res)
                   THEN "same" ELSE "differs"
              ELSE "first"]

\* client.batches.retrieve(batch_id)
Poll(j) ==
  /\ rd' = Read("poll", j, jobs[j], NotCalled)
  /\ UNCHANGED <<files, jobs, calls, listed, cancelRet, enc, ui>>

\* Download that removes the output file from the provider once fetched.
DownloadConsuming(j, saved, savedRaw) ==
  /\ rd' = Read("results", j, jobs[j], get_batch_results(jobs[j], saved, savedRaw))
  /\ jobs' = [jobs EXCEPT ![j].out = NoFile]
  /\ UNCHANGED <<files, calls, listed, cancelRet, enc, ui>>

\* saved, savedRaw: whether the user picks a file in the save dialogs.
Download(j, saved, savedRaw) ==
  /\ rd' = Read("results", j, jobs[j], get_batch_results(jobs[j], saved, savedRaw))
  /\ UNCHANGED <<files, jobs, calls, listed, cancelRet, enc, ui>>

\* ------------------------------------------------------------------------
\* generate_*_batch and forbid_additional_props calls
\* ------------------------------------------------------------------------
\* A call about to be made, with its arguments.
EncodeCall(type, labels, quotes) ==
  [NoEnc EXCEPT !.op = "encode", !.type = type, !.labels = labels, !.quotes = quotes]
ForbidCall(schema) == [NoEnc EXCEPT !.op = "forbid", !.schema = schema]

GenerateBatch ==
  /\ enc.op = "encode" /\ ~enc.done
  /\ enc' = [enc EXCEPT !.done = TRUE, !.res = Encode(enc.type, enc.labels, enc.quotes)]
  /\ UNCHANGED <<files, jobs, calls, listed, cancelRet, rd, ui>>

ForbidAdditionalProps ==
  /\ enc.op = "forbid" /\ ~enc.done
  /\ enc' = [enc EXCEPT !.done = TRUE, !.strict = forbid_additional_props(enc.schema)]
  /\ UNCHANGED <<files, jobs, calls, listed, cancelRet, rd, ui>>

\* send_batch after the encoder returned (batch_method.py 106-124): the
\* buffer is uploaded and a job is created on it.
SubmitEncoded ==
  /\ enc.op = "encode" /\ enc.done /\ ~enc.res.raised
  /\ jobs = <<>>
  /\ files' = Append(files, "custom")
  /\ jobs' = <<Job("validating", 1, "custom", NoFile, NoFile)>>
  /\ UNCHANGED <<calls, listed, cancelRet, rd, enc, ui>>

\* The provider's output for the lines of a single-label payload when every
\* request succeeds: one record per line, in any order, with the line's
\* custom_id, its metadata echoed, and a text that conforms to the schema
\* of the line (a label of the enumeration).
Perms(n) == {pi \in [1..n -> 1..n] : \A a, b \in 1..n : pi[a] = pi[b] => a = b}
AnswerTo(line, label) ==
  Rec(Str(line.custom_id), "ok", Str(<<line.metadata.quote>>), LabelObj(<<label>>))
WellFormedOutputs(payload, labels) ==
  {[k \in 1..Len(payload) |-> AnswerTo(payload[pi[k]], ls[pi[k]])] :
     pi \in Perms(Len(payload)),
     ls \in [1..Len(payload) -> {labels[i] : i \in 1..Len(labels)}]}

\* The provider completes the job with one well-formed record per request.
CompleteEncoded ==
  /\ Len(jobs) = 1 /\ jobs[1].status = "validating"
  /\ \E recs \in WellFormedOutputs(enc.res.payload, enc.labels) :
       jobs' = <<Job("completed", 1, "custom", File(recs), NoFile)>>
  /\ UNCHANGED <<files, calls, listed, cancelRet, rd, enc, ui>>

\* get_batch_results on the completed job, once.
DownloadEncoded ==
  /\ Len(jobs) = 1 /\ jobs[1].status = "completed" /\ rd.op = "none"
  /\ \E saved \in BOOLEAN : Download(1, saved, FALSE)

\* ------------------------------------------------------------------------
\* OpenAIService.get_batch_results (openai_service.py 344-392)
\* ------------------------------------------------------------------------
\* The items of the output file of a completed job, or the error raised
\* for a job that is not completed, has no output file or has no valid
\* classification.
ServiceResults(job, items) ==
  IF job.status # "completed"
  THEN Raised("services", "BATCH_NOT_COMPLETED", FALSE, <<>>, <<>>)
  ELSE IF ~job.out.present
  THEN Raised("services", "NO_OUTPUT_FILE", FALSE, <<>>, <<>>)
  ELSE IF items = <<>>
  THEN Raised("services", "NO_VALID_CLASSIFICATIONS", FALSE, <<>>, <<>>)
  ELSE Outcome("services", "none", FALSE, items, <<>>, <<>>, <<>>, <<>>, FALSE, FALSE)

\* The command-line application retrieves the results of its job.
RetrieveBatchResults ==
  /\ Len(jobs) = 1 /\ jobs[1].payload = "services"
  /\ rd' = Read("services", 1, jobs[1],
                ServiceResults(jobs[1], AllClassifications(jobs[1].out.recs)))
  /\ UNCHANGED <<files, jobs, calls, listed, cancelRet, enc, ui>>

\* The desktop application downloads the results of its job.
DownloadCustom ==
  /\ Len(jobs) = 1 /\ jobs[1].payload = "custom"
  /\ \E saved \in BOOLEAN : Download(1, saved, FALSE)

\* ------------------------------------------------------------------------
\* send_batch from its first line (batch_method.py 57-126)
\* ------------------------------------------------------------------------
\* A send_batch that uploads the buffer before it looks at the batch type.
SendBatchEncodeLate(cancelled) ==
  /\ enc.op = "encode" /\ ~enc.done /\ calls = <<>>
  /\ ~cancelled
  /\ enc' = [enc EXCEPT !.done = TRUE, !.res = Encode(enc.type, enc.labels, enc.quotes)]
  /\ files' = Append(files, "custom")
  /\ calls' = <<Call(IF Encode(enc.type, enc.labels, enc.quotes).raised
                     THEN "raised" ELSE "create", "custom", 1, 0, 1, 0)>>
  /\ UNCHANGED <<jobs, listed, cancelRet, rd, ui>>

\* Lines 57-104: the import dialogs and the encoder.  A cancelled dialog
\* makes the call return None; an unknown batch type or an exception of the
\* encoder leaves the call; otherwise the call goes on to the upload.
SendBatchEncode(cancelled) ==
  /\ enc.op = "encode" /\ ~enc.done /\ calls = <<>>
  /\ IF cancelled /\ enc.type \in BatchTypes
     THEN /\ calls' = <<Call("returned", "none", 0, 0, 0, 0)>>
          /\ enc' = [enc EXCEPT !.done = TRUE, !.op = "cancelled"]
     ELSE /\ enc' = [enc EXCEPT !.done = TRUE,
                                !.res = Encode(enc.type, enc.labels, enc.quotes)]
          /\ calls' = <<Call(IF Encode(enc.type, enc.labels, enc.quotes).raised
                             THEN "raised" ELSE "upload", "custom", 0, 0, 0, 0)>>
  /\ UNCHANGED <<files, jobs, listed, cancelRet, rd, ui>>

\* ------------------------------------------------------------------------
\* Background operations of the window (ui/batch_operations.py 35-108)
\* ------------------------------------------------------------------------
MaxWorkers == 2
WorkerKinds == {"refresh", "submit", "cancel", "download"}

\* A callback handed to parent.after(0, ...) by worker w.  Tk runs these on
\* the UI thread, one at a time, in the order they were handed over.
Cb(kind, w) == [kind |-> kind, w |-> w]

\* Threads that exist or will exist: a submit worker that has not finished
\* send_batch starts a refresh worker when it has.
Room ==
  Len(ui.workers)
    + Cardinality({w \in 1..Len(ui.workers) :
                     ui.workers[w].kind = "submit" /\ ui.workers[w].pc = "run"})

\* threading.Thread(target=_worker, daemon=True).start() of lines 53, 66, 91
\* and 108: the user starts an operation, on job j for cancel and download.
UiStart(kind, j) ==
  /\ Room + (IF kind = "submit" THEN 2 ELSE 1) <= MaxWorkers
  /\ IF kind \in {"cancel", "download"} THEN j \in 1..Len(jobs) ELSE j = 0
  /\ ui' = [ui EXCEPT !.workers = Append(@, Worker(kind, "run", j, NoTables, 0, FALSE))]
  /\ UNCHANGED <<files, jobs, calls, listed, cancelRet, rd, enc>>

\* Lines 80-81 and 89-90 of the refresh worker: list_batches returns the two
\* tables, or it raises and the handler schedules the error dialog with the
\* message bound into the callback (functools.partial).
RefreshList(w) ==
  /\ ui.workers[w].kind = "refresh" /\ ui.workers[w].pc = "run"
  /\ \E ok \in BOOLEAN :
       IF ok
       THEN ui' = [ui EXCEPT !.workers[w].pc = "fetched",
                             !.workers[w].snap = list_batches(ProviderList(jobs, max_batches)),
                             !.workers[w].seq = ui.fetches + 1,
                             !.fetches = @ + 1]
       ELSE ui' = [ui EXCEPT !.workers[w].pc = "done",
                             !.workers[w].raised = TRUE,
                             !.queue = Append(@, Cb("error_bound", w))]
  /\ UNCHANGED <<files, jobs, calls, listed, cancelRet, rd, enc>>

\* Line 88: parent.after(0, _update_ui).
RefreshAfter(w) ==
  /\ ui.workers[w].kind = "refresh" /\ ui.workers[w].pc = "fetched"
  /\ ui' = [ui EXCEPT !.workers[w].pc = "done",
                       !.queue = Append(@, Cb("update", w))]
  /\ UNCHANGED <<files, jobs, calls, listed, cancelRet, rd, enc>>

\* Lines 47-52 of the submit worker.  send_batch creates a job, returns None
\* after a cancelled dialog, or raises; after a return the worker starts a
\* refresh and schedules a print; after a raise it schedules a lambda that
\* reads the handler's variable error when it runs.
SubmitRun(w) ==
  /\ ui.workers[w].kind = "submit" /\ ui.workers[w].pc = "run"
  /\ \E result \in {"job", "none", "raised"} :
       /\ IF result = "job"
          THEN /\ files' = Append(files, "good")
               /\ jobs' = Append(jobs, Job("validating", Len(files) + 1, "good",
                                           NoFile, NoFile))
               /\ rd' = [rd EXCEPT !.dirty = TRUE]
          ELSE UNCHANGED <<files, jobs, rd>>
       /\ IF result = "raised"
          THEN ui' = [ui EXCEPT !.workers[w].pc = "in_except",
                                !.workers[w].raised = TRUE,
                                !.queue = Append(@, Cb("error_lambda", w))]
          ELSE ui' = [ui EXCEPT !.workers =
                                   Append([@ EXCEPT ![w].pc = "done"],
                                          Worker("refresh", "run", 0, NoTables, 0, FALSE)),
                                !.queue = Append(@, Cb("print", w))]
  /\ UNCHANGED <<calls, listed, cancelRet, enc>>

\* Lines 103-107 of the cancel worker: cancel_batch answers or raises; the
\* error dialog is again a lambda that reads error when it runs.
CancelRun(w) ==
  /\ ui.workers[w].kind = "cancel" /\ ui.workers[w].pc = "run"
  /\ IF jobs[ui.workers[w].job].status \in Cancellable
     THEN /\ jobs' = [jobs EXCEPT ![ui.workers[w].job].status = "cancelling"]
          /\ cancelRet' = [id |-> ui.workers[w].job, raised |-> FALSE,
                           status |-> "cancelling"]
          /\ rd' = [rd EXCEPT !.dirty = TRUE]
          /\ ui' = [ui EXCEPT !.workers[w].pc = "done",
                              !.queue = Append(@, Cb("print", w))]
     ELSE /\ cancelRet' = [id |-> ui.workers[w].job, raised |-> TRUE, status |-> "none"]
          /\ ui' = [ui EXCEPT !.workers[w].pc = "in_except",
                              !.workers[w].raised = TRUE,
                              !.queue = Append(@, Cb("error_lambda", w))]
          /\ UNCHANGED <<jobs, rd>>
  /\ UNCHANGED <<files, calls, listed, enc>>

\* The end of an except block (lines 52 and 107): Python unbinds the
\* handler's variable error, and the worker ends.
LeaveExcept(w) ==
  /\ ui.workers[w].pc = "in_except"
  /\ ui' = [ui EXCEPT !.workers[w].pc = "done"]
  /\ UNCHANGED <<files, jobs, calls, listed, cancelRet, rd, enc>>

\* Lines 64-65 of the download worker: get_batch_results with no handler
\* around it.  An exception ends the thread; nothing is scheduled, and the
\* result is dropped.
DownloadRun(w) ==
  /\ ui.workers[w].kind = "download" /\ ui.workers[w].pc = "run"
  /\ \E saved \in BOOLEAN :
       ui' = [ui EXCEPT !.workers[w].pc = "done",
                        !.workers[w].raised =
                           get_batch_results(jobs[ui.workers[w].job], saved, FALSE).raised]
  /\ UNCHANGED <<files, jobs, calls, listed, cancelRet, rd, enc>>

\* A callback that refreshes the two tables one after the other, each in a
\* callback of its own: this one fills the ongoing table only.
update_ui_ongoing(tables, snap) == [ongoing |-> snap.ongoing, done |-> tables.done]

\* _update_ui (lines 83-86): both tables are emptied and filled from the
\* two lists of the worker's list_batches result (populate_treeview,
\* ui_utils.py 29-50).
update_ui(tables, snap) == [ongoing |-> snap.ongoing, done |-> snap.done]

\* The UI thread runs the next scheduled callback to its end.  A lambda
\* that reads error after the worker left its except block raises
\* NameError inside the callback, and no dialog opens.
UiRun ==
  /\ ui.queue # <<>>
  /\ LET cb == Head(ui.queue)
     IN CASE cb.kind = "update" ->
               /\ listed' = update_ui(listed, ui.workers[cb.w].snap)
               /\ ui' = [ui EXCEPT !.queue = Tail(@), !.shown = cb.w]
          [] cb.kind = "error_bound" ->
               /\ ui' = [ui EXCEPT !.queue = Tail(@), !.dialogs = @ \cup {cb.w}]
               /\ UNCHANGED listed
          [] cb.kind = "error_lambda" /\ ui.workers[cb.w].pc = "in_except" ->
               /\ ui' = [ui EXCEPT !.queue = Tail(@), !.dialogs = @ \cup {cb.w}]
               /\ UNCHANGED listed
          [] cb.kind = "error_lambda" /\ ui.workers[cb.w].pc # "in_except" ->
               /\ ui' = [ui EXCEPT !.queue = Tail(@), !.broken = @ \cup {cb.w}]
               /\ UNCHANGED listed
          [] OTHER ->
               /\ ui' = [ui EXCEPT !.queue = Tail(@)]
               /\ UNCHANGED listed
  /\ UNCHANGED <<files, jobs, calls, cancelRet, rd, enc>>

\* ------------------------------------------------------------------------
\* Specifications
\* ------------------------------------------------------------------------
\* Submission: the provider holds nothing yet; users submit payloads and
\* the provider works on the jobs.
Init ==
  /\ files = <<>>
  /\ jobs = <<>>
  /\ calls = <<>>
  /\ listed = NoTables
  /\ cancelRet = NoCancel
  /\ rd = NoRead
  /\ ui = NoUi
  /\ enc = NoEnc

Next ==
  \/ \E p \in Payloads : StartSubmit(p)
  \/ \E c \in 1..Len(calls) : Upload(c)
  \/ \E c \in 1..Len(calls) : Create(c)
  \/ \E j \in 1..Len(jobs) : Advance(j)

Spec == Init /\ [][Next]_vars

\* The provider's state when the application starts: jobs submitted in
\* earlier sessions, each with its input file.
PriorJobs(ps) == [i \in 1..Len(ps) |-> Job("validating", i, ps[i], NoFile, NoFile)]
PayloadSeqs(S, n) == UNION {[1..k -> S] : k \in 1..n}

InitWith(ps) ==
  /\ files = ps
  /\ jobs = PriorJobs(ps)
  /\ calls = <<>>
  /\ listed = NoTables
  /\ cancelRet = NoCancel
  /\ rd = NoRead
  /\ ui = NoUi
  /\ enc = NoEnc

\* Listing and cancelling the jobs of earlier sessions.
InitList == \E ps \in PayloadSeqs({"good"}, MaxJobs) : InitWith(ps)

NextList ==
  \/ \E j \in 1..Len(jobs) : Advance(j)
  \/ \E j \in 1..Len(jobs) : Cancel(j)
  \/ ListBatches

SpecList == InitList /\ [][NextList]_vars

\* Polling jobs and fetching their results while the provider works on them.
InitRead == \E ps \in PayloadSeqs(Payloads, MaxReadJobs) : InitWith(ps)

NextRead ==
  \/ \E j \in 1..Len(jobs) : Advance(j)
  \/ \E j \in 1..Len(jobs) : Cancel(j)
  \/ \E j \in 1..Len(jobs) : Poll(j)
  \/ \E j \in 1..Len(jobs), saved \in BOOLEAN, savedRaw \in BOOLEAN :
       Download(j, saved, savedRaw)

SpecRead == InitRead /\ [][NextRead]_vars

\* Reconciling one completed job whose output file holds any records.
SampleTexts ==
  {TGood, TOther, TGarbage, TBrace, TKeyValue, TNumber, TOverride, TTruncated, TTruncatedWords, TTrailing,
   TFenced, TFencedJson, TKeyValueQuoted, TMulti, TMultiNull, TMultiEmpty, TLong}
RecordKinds ==
  [shape : {"ok"}, text : SampleTexts]
    \cup [shape : EnvelopeShapes \ {"ok"}, text : {TGood}]
OutputFiles(max) ==
  UNION {{[i \in 1..n |-> Rec(Str(<<Ids[i]>>), ks[i].shape, Str(<<Quotes[i]>>), ks[i].text)] :
            ks \in [1..n -> RecordKinds]} : n \in 0..max}

InitReconcile ==
  /\ files = <<"custom">>
  /\ \E recs \in OutputFiles(MaxRecords) :
       jobs = <<Job("completed", 1, "custom", File(recs), NoFile)>>
  /\ calls = <<>>
  /\ listed = NoTables
  /\ cancelRet = NoCancel
  /\ rd = NoRead
  /\ ui = NoUi
  /\ enc = NoEnc

NextReconcile == \E saved \in BOOLEAN : Download(1, saved, FALSE)

SpecReconcile == InitReconcile /\ [][NextReconcile]_vars

\* Encoding: any batch type, label list and item list, and any schema.
SeqsUpTo(S, n) == UNION {[1..k -> S] : k \in 0..n}
LabelLists == SeqsUpTo({"a", "b"}, 2) \ {<<>>}
ItemLists(max, long) == SeqsUpTo({"q1", "q2"}, max) \cup {[i \in 1..long |-> "q1"]}

\* Schemas with objects that allow additional properties, or have no
\* properties map, at the root and under properties, pattern properties,
\* items and the branches of oneOf, anyOf and allOf.
ObjectSchema(hasProps, props, patternProps, addl) ==
  Schema("object", hasProps, props, patternProps, addl, <<>>, <<>>, <<>>, <<>>, <<>>, <<>>)
BranchSchema(oneOf, anyOf, allOf) ==
  Schema("none", FALSE, <<>>, <<>>, "absent", <<>>, oneOf, anyOf, allOf, <<>>, <<>>)
Around(x) ==
  {ObjectSchema(TRUE, <<Named("p", x)>>, <<>>, "true"),
   ObjectSchema(FALSE, <<>>, <<Named("^p", x)>>, "absent"),
   ArraySchema(x),
   BranchSchema(<<x, StringSchema>>, <<>>, <<>>),
   BranchSchema(<<>>, <<StringSchema, x>>, <<>>),
   BranchSchema(<<>>, <<>>, <<x>>)}
RECURSIVE Schemas(_)
Schemas(depth) ==
  IF depth = 0
  THEN {StringSchema, ObjectSchema(FALSE, <<>>, <<>>, "absent"),
        ObjectSchema(TRUE, <<>>, <<>>, "true")}
  ELSE Schemas(depth - 1) \cup UNION {Around(x) : x \in Schemas(depth - 1)}

InitEncode ==
  /\ files = <<>>
  /\ jobs = <<>>
  /\ calls = <<>>
  /\ listed = NoTables
  /\ cancelRet = NoCancel
  /\ rd = NoRead
  /\ ui = NoUi
  /\ \/ \E type \in BatchTypes, labels \in LabelLists \cup {<<>>},
          quotes \in ItemLists(MaxItems, MaxLongItems) :
          enc = EncodeCall(type, labels, quotes)
     \/ \E schema \in Schemas(MaxSchemaDepth) : enc = ForbidCall(schema)

NextEncode ==
  \/ GenerateBatch
  \/ ForbidAdditionalProps

SpecEncode == InitEncode /\ [][NextEncode]_vars

\* Round trip: a single-label submission of labels and texts, encoded,
\* submitted, answered by the provider and reconciled.
InitRoundTrip ==
  /\ files = <<>>
  /\ jobs = <<>>
  /\ calls = <<>>
  /\ listed = NoTables
  /\ cancelRet = NoCancel
  /\ rd = NoRead
  /\ ui = NoUi
  /\ \E labels \in LabelLists, quotes \in SeqsUpTo({"q1", "q2"}, MaxItems) \ {<<>>} :
       enc = EncodeCall("single_label", labels, quotes)

NextRoundTrip ==
  \/ GenerateBatch
  \/ SubmitEncoded
  \/ CompleteEncoded
  \/ DownloadEncoded

SpecRoundTrip == InitRoundTrip /\ [][NextRoundTrip]_vars

\* Confidence: a completed job of either application, whose output answers
\* the schema of that application, with or without a confidence.
TextFiles(texts, max) ==
  UNION {{[i \in 1..n |-> OkRec(i, ts[i])] : ts \in [1..n -> texts]} : n \in 0..max}
StatusFiles ==
  {[status |-> "completed", out |-> File(<<OkRec(1, TClassOne)>>)],
   [status |-> "completed", out |-> NoFile],
   [status |-> "in_progress", out |-> NoFile],
   [status |-> "failed", out |-> NoFile]}

InitConfidence ==
  /\ \/ /\ files = <<"custom">>
        /\ \E recs \in TextFiles(ConfidenceTexts, MaxRecords) :
             jobs = <<Job("completed", 1, "custom", File(recs), NoFile)>>
     \/ /\ files = <<"services">>
        /\ \/ \E recs \in TextFiles(ClassificationTexts, MaxRecords) :
                jobs = <<Job("completed", 1, "services", File(recs), NoFile)>>
           \/ \E sf \in StatusFiles :
                jobs = <<Job(sf.status, 1, "services", sf.out, NoFile)>>
  /\ calls = <<>>
  /\ listed = NoTables
  /\ cancelRet = NoCancel
  /\ rd = NoRead
  /\ ui = NoUi
  /\ enc = NoEnc

NextConfidence ==
  \/ DownloadCustom
  \/ RetrieveBatchResults

SpecConfidence == InitConfidence /\ [][NextConfidence]_vars

\* One send_batch call from its first line: the batch type (one the
\* application knows or another), the lists the dialogs return, then the
\* encoder, the upload and the job creation.
InitSend ==
  /\ files = <<>>
  /\ jobs = <<>>
  /\ calls = <<>>
  /\ listed = NoTables
  /\ cancelRet = NoCancel
  /\ rd = NoRead
  /\ ui = NoUi
  /\ \E type \in BatchTypes \cup {"other"}, labels \in LabelLists,
        quotes \in SeqsUpTo({"q1", "q2"}, MaxItems) \ {<<>>} :
        enc = EncodeCall(type, labels, quotes)

NextSend ==
  \/ \E cancelled \in BOOLEAN : SendBatchEncode(cancelled)
  \/ \E c \in 1..Len(calls) : Upload(c)
  \/ \E c \in 1..Len(calls) : Create(c)

SpecSend == InitSend /\ [][NextSend]_vars

\* The window: the provider holds one job; the user starts operations, the
\* worker threads and the UI thread run in any order, and the provider
\* works on the jobs.
InitUi ==
  /\ files = <<"good">>
  /\ jobs = <<Job("validating", 1, "good", NoFile, NoFile)>>
  /\ calls = <<>>
  /\ listed = NoTables
  /\ cancelRet = NoCancel
  /\ rd = NoRead
  /\ ui = NoUi
  /\ enc = NoEnc

NextUi ==
  \/ \E kind \in WorkerKinds : \E j \in 0..Len(jobs) : UiStart(kind, j)
  \/ \E w \in 1..Len(ui.workers) : RefreshList(w)
  \/ \E w \in 1..Len(ui.workers) : RefreshAfter(w)
  \/ \E w \in 1..Len(ui.workers) : SubmitRun(w)
  \/ \E w \in 1..Len(ui.workers) : CancelRun(w)
  \/ \E w \in 1..Len(ui.workers) : LeaveExcept(w)
  \/ \E w \in 1..Len(ui.workers) : DownloadRun(w)
  \/ UiRun
  \/ \E j \in 1..Len(jobs) : Advance(j)

SpecUi == InitUi /\ [][NextUi]_vars

\* ------------------------------------------------------------------------
\* Properties
\* ------------------------------------------------------------------------
InSeq(x, seq) == \E i \in 1..Len(seq) : seq[i] = x
Range(seq) == {seq[i] : i \in 1..Len(seq)}

\* C1: whenever list_batches refreshes the tables, every job the provider
\* returned with status validating, in_progress, cancelling or finalizing is
\* in the ongoing table and not in the done table, and every job returned
\* with status completed, failed or cancelled is in the done table and not
\* in the ongoing table.
C1_OngoingDoneClassification ==
  [][listed' # listed =>
       \A b \in Range(ProviderList(jobs, max_batches)) :
          /\ b.status \in {"validating", "in_progress", "cancelling", "finalizing"}
               => InSeq(b, listed'.ongoing) /\ ~InSeq(b, listed'.done)
          /\ b.status \in {"completed", "failed", "cancelled"}
               => InSeq(b, listed'.done) /\ ~InSeq(b, listed'.ongoing)]_vars

\* A listing that shows a cancelling job as ongoing and a cancelled one as done.
C1_Witness ==
  /\ \E b \in Range(listed.ongoing) : b.status = "cancelling"
  /\ \E b \in Range(listed.done) : b.status = "cancelled"

\* The records of an output file that lack the model text field.
FormatFailure(rec) == rec.shape \notin {"ok", "blank"}
\* A text the loop can turn into a row or a bad row without raising.
Benign(text) ==
  LET p == _safe_parse_model_text(text) IN p.none \/ p.v.k \in {"obj", "null"}
IdsOf(rows) == {rows[i].custom_id : i \in 1..Len(rows)}
Reconciled == rd.op = "results" /\ rd.job.out.present

\* C2: when the output of a completed job holds records without the model
\* text field, get_batch_results raises nothing, makes no row and no bad
\* row of such a record, and makes a row or a bad row of every other record.
C2_FormatFailureSkipped ==
  LET recs == rd.job.out.recs
  IN (/\ Reconciled
      /\ \E i \in 1..Len(recs) : FormatFailure(recs[i])
      /\ \A i \in 1..Len(recs) : recs[i].shape = "ok" => Benign(recs[i].text))
     => /\ ~rd.res.raised
        /\ \A i \in 1..Len(recs) :
             /\ recs[i].shape = "ok"
                  => recs[i].custom_id \in IdsOf(rd.res.responses) \cup IdsOf(rd.res.bad_rows)
             /\ FormatFailure(recs[i])
                  => recs[i].custom_id \notin IdsOf(rd.res.responses) \cup IdsOf(rd.res.bad_rows)

\* A text json.loads takes as an object holding one label string and
\* nothing else.
WellFormedSingle(text) ==
  LET p == _safe_parse_model_text(text)
  IN /\ ~p.none /\ p.note = NoteNone /\ p.v.k = "obj"
     /\ Len(p.v.members) = 1 /\ Lookup(p.v, "label").k = "str"
\* A text none of direct parse, fence, truncation and key-value repair takes.
Unparseable(text) == _safe_parse_model_text(text).none

\* The bad row b is among the rows the call wrote out.
FailureDelivered(res, b) ==
  \E i \in 1..Len(res.csv) :
     res.csv[i].custom_id = b.custom_id /\ res.csv[i].raw_text = b.raw_text
ReconciledRowsDelivered(res) ==
  SelectSeq(res.csv, LAMBDA r: r.raw_text = Absent)
FailureRowsDelivered(res) ==
  {i \in 1..Len(res.bad_rows) : FailureDelivered(res, res.bad_rows[i])}

\* An output of N complete records, one of them unparseable, the others
\* well-formed single-label answers, fetched by a user who saves the table.
OneBadRecord ==
  LET recs == rd.job.out.recs
  IN /\ Reconciled /\ rd.res.saved /\ Len(recs) >= 1
     /\ \A i \in 1..Len(recs) : recs[i].shape = "ok"
     /\ Cardinality({i \in 1..Len(recs) : Unparseable(recs[i].text)}) = 1
     /\ \A i \in 1..Len(recs) :
          ~Unparseable(recs[i].text) => WellFormedSingle(recs[i].text)

\* C3: reconciling N records of which exactly one is unparseable and the
\* others are well-formed single-label records raises nothing and hands the
\* caller exactly N-1 ReconciledRows and exactly 1 FailureRow.
C3_PartialFailureIsolation ==
  OneBadRecord =>
    /\ ~rd.res.raised
    /\ Len(ReconciledRowsDelivered(rd.res)) = Len(rd.job.out.recs) - 1
    /\ Cardinality(FailureRowsDelivered(rd.res)) = 1

\* C4: every bad row get_batch_results collects is among the rows the same
\* call writes out for the caller.
C4_FailuresDelivered ==
  (Reconciled /\ rd.res.saved /\ ~rd.res.raised) =>
    \A i \in 1..Len(rd.res.bad_rows) : FailureDelivered(rd.res, rd.res.bad_rows[i])

\* C5: get_batch_results on a job that is not completed, or that has no
\* output file, ends in an exception and neither reconciles anything nor
\* reports anything.
C5_ReconcileFailsFast ==
  (rd.op = "results" /\ (rd.job.status # "completed" \/ ~rd.job.out.present))
    => /\ rd.res.raised
       /\ rd.res.responses = <<>> /\ rd.res.bad_rows = <<>>
       /\ rd.res.df = <<>> /\ rd.res.error_rows = <<>>

\* C6: get_batch_results runs the reconciliation only for a job it saw as
\* completed, runs handle_batch_fail only for a job it saw as failed with an
\* error file, and a failed job with an error file raises nothing.
C6_DispatchOnStatus ==
  rd.op = "results" =>
    /\ rd.res.path = "reconcile" => rd.job.status = "completed"
    /\ rd.res.path = "fail_report" => rd.job.status = "failed" /\ rd.job.err.present
    /\ (rd.job.status = "failed" /\ rd.job.err.present) => ~rd.res.raised

Ended(c) == calls[c].pc \in {"returned", "raised"}
JobsOn(f) == {j \in 1..Len(jobs) : jobs[j].input = f}

\* C7: once a send_batch call has ended, either the job it registered is the
\* one job that references the file it uploaded, or it has left neither a
\* file nor a job at the provider.
C7_SubmitAllOrNothing ==
  \A c \in 1..Len(calls) :
     Ended(c) =>
       \/ /\ calls[c].job # 0 /\ calls[c].file # 0
          /\ JobsOn(calls[c].file) = {calls[c].job}
       \/ calls[c].job = 0 /\ calls[c].file = 0

C9_ReadsArePure ==
  [][(rd' # rd /\ ~rd'.dirty) =>
       (UNCHANGED <<files, jobs, ui>> /\ rd'.repeat # "differs")]_vars

\* A reconciliation repeated on an unchanged job, and the same rows again.
C9_Witness ==
  /\ rd.op = "results" /\ rd.repeat = "same"
  /\ rd.res.path = "reconcile" /\ Len(rd.res.df) > 0

\* C10: a cancel_batch call leaves the caller's tables and calls as they
\* are and comes back while the job is still cancelling; the tables change
\* only by a list_batches call, and they show a job as cancelled only when
\* the provider has it as cancelled.
C10_CancelOnlyRequests ==
  [][/\ cancelRet' # cancelRet =>
          /\ UNCHANGED <<listed, calls, files, ui>>
          /\ ~cancelRet'.raised =>
               /\ cancelRet'.status = "cancelling"
               /\ jobs'[cancelRet'.id].status = "cancelling"
               /\ cancelRet'.status \in ongoing_statuses
     /\ listed' # listed => listed' = list_batches(ProviderList(jobs', max_batches))
     /\ \A b \in Range(listed'.ongoing) \cup Range(listed'.done) :
          b.status = "cancelled" => jobs'[b.id].status = "cancelled"]_vars

\* The provider has cancelled the job after a cancel_batch call, and the
\* caller's table, not refreshed since, still shows it as ongoing.
C10_Witness ==
  /\ ~cancelRet.raised /\ cancelRet.status = "cancelling"
  /\ jobs[cancelRet.id].status = "cancelled"
  /\ \E b \in Range(listed.ongoing) : b.id = cancelRet.id

\* The number a string of decimal digits stands for.
RECURSIVE NumberOf(_)
NumberOf(digits) ==
  IF digits = <<>> THEN 0
  ELSE 10 * NumberOf(SubSeq(digits, 1, Len(digits) - 1))
       + (CHOOSE d \in 0..9 : DecimalChars[d + 1] = digits[Len(digits)])
Encoded_ok == enc.op = "encode" /\ enc.done /\ ~enc.res.raised
PrefixOf(type) == IF type = "keyword_extraction" THEN "text" ELSE "quote"

NonBlank(recs) == SelectSeq(recs, LAMBDA r: r.shape # "blank")
RowRecords(recs) ==
  SelectSeq(NonBlank(recs), LAMBDA r: LET p == _safe_parse_model_text(r.text)
                                      IN ~p.none /\ p.v.k = "obj")
BadRecords(recs) ==
  SelectSeq(NonBlank(recs), LAMBDA r: LET p == _safe_parse_model_text(r.text)
                                      IN p.none \/ p.v.k = "null")

\* C12: every row and every bad row get_batch_results makes carries the
\* custom_id of the output record it was made of, whatever the model text
\* of the record says.
C12_IdPreserved ==
  (Reconciled /\ ~rd.res.raised) =>
    /\ Len(rd.res.responses) = Len(RowRecords(rd.job.out.recs))
    /\ \A i \in 1..Len(rd.res.responses) :
         rd.res.responses[i].custom_id = RowRecords(rd.job.out.recs)[i].custom_id
    /\ Len(rd.res.bad_rows) = Len(BadRecords(rd.job.out.recs))
    /\ \A i \in 1..Len(rd.res.bad_rows) :
         rd.res.bad_rows[i].custom_id = BadRecords(rd.job.out.recs)[i].custom_id

\* No object node of the schema, reached through properties, array items
\* and oneOf, anyOf and allOf branches, allows additional properties or
\* lacks the properties map.
RECURSIVE Closed(_)
Closed(schema) ==
  /\ schema.type = "object" => schema.addl = "false" /\ schema.hasProps
  /\ \A i \in 1..Len(schema.props) : Closed(schema.props[i].schema)
  /\ \A i \in 1..Len(schema.items) : Closed(schema.items[i])
  /\ \A i \in 1..Len(schema.oneOf) : Closed(schema.oneOf[i])
  /\ \A i \in 1..Len(schema.anyOf) : Closed(schema.anyOf[i])
  /\ \A i \in 1..Len(schema.allOf) : Closed(schema.allOf[i])

\* C13: the schema in every request line a generate_*_batch call returns
\* is closed, for every batch type and label list, and so is the schema
\* forbid_additional_props returns for any schema.
C13_SchemaClosure ==
  /\ Encoded_ok =>
       \A i \in 1..Len(enc.res.payload) : Closed(enc.res.payload[i].format.schema)
  /\ (enc.op = "forbid" /\ enc.done) => Closed(enc.strict)

\* A schema whose array items hold an object that allowed additional
\* properties, closed by the call.
C13_Witness ==
  /\ enc.op = "forbid" /\ enc.done
  /\ enc.schema.type = "array" /\ ~Closed(enc.schema.items[1])
  /\ Closed(enc.strict)

\* The parsed text is an object whose label is an array.
IsLabelArray(p) == ~p.none /\ p.v.k = "obj" /\ Lookup(p.v, "label").k = "arr"

\* The elements of the label array that are not null.
LabelItems(p) == SelectSeq(Lookup(p.v, "label").items, LAMBDA x: ~IsNA(x))

RowsOf(df, id) == SelectSeq(df, LAMBDA row: row.custom_id = id)

\* The rows are one per label, in order, each with the record's id and text.
ExplodedAs(rows, rec, labels) ==
  /\ Len(rows) = Len(labels)
  /\ \A n \in 1..Len(rows) :
       /\ rows[n].label = labels[n]
       /\ rows[n].custom_id = rec.custom_id
       /\ rows[n].quote = rec.quote

ExplodedRecord(df, rec, p) ==
  IsLabelArray(p) => ExplodedAs(RowsOf(df, rec.custom_id), rec, LabelItems(p))

\* C14: in the table get_batch_results saves, an output record whose label
\* is an array has one row per element of the array that is not null, in
\* order, each with the record's custom_id and quote; an empty array and a
\* null element have no row.
C14_ExplodeLaw ==
  (Reconciled /\ ~rd.res.raised) =>
    \A i \in 1..Len(rd.job.out.recs) :
       rd.job.out.recs[i].shape = "ok" =>
         ExplodedRecord(rd.res.df, rd.job.out.recs[i],
                        _safe_parse_model_text(rd.job.out.recs[i].text))

\* Two labels of one record and one label beside a null give three rows.
C14_Witness ==
  /\ Reconciled /\ ~rd.res.raised
  /\ Len(rd.job.out.recs) = 2
  /\ rd.job.out.recs[1].text = TMulti /\ rd.job.out.recs[2].text = TMultiNull
  /\ rd.job.out.recs[1].shape = "ok" /\ rd.job.out.recs[2].shape = "ok"
  /\ Len(rd.res.df) = 3
  /\ Len(RowsOf(rd.res.df, rd.job.out.recs[1].custom_id)) = 2

\* An empty label array leaves its record without a row.
C14_WitnessEmpty ==
  /\ Reconciled /\ ~rd.res.raised
  /\ \E i \in 1..Len(rd.job.out.recs) :
       /\ rd.job.out.recs[i].shape = "ok" /\ rd.job.out.recs[i].text = TMultiEmpty
       /\ RowsOf(rd.res.df, rd.job.out.recs[i].custom_id) = <<>>

SubmittedIds == {Str(enc.res.payload[i].custom_id) : i \in 1..Len(enc.res.payload)}
RowIds(rows) == {rows[i].custom_id : i \in 1..Len(rows)}
RoundTripDone == rd.op = "results" /\ enc.op = "encode" /\ enc.done

\* C15: when the provider returns one well-formed record for each of the N
\* requests of a single-label payload, in any order, get_batch_results
\* returns, its table has N rows whose custom_ids are the N distinct ids
\* that were submitted, and no output record became a bad row.
C15_RoundTrip ==
  RoundTripDone =>
    /\ ~rd.res.raised
    /\ Len(rd.res.df) = Len(enc.quotes)
    /\ RowIds(rd.res.df) = SubmittedIds
    /\ Cardinality(SubmittedIds) = Len(enc.quotes)
    /\ rd.res.bad_rows = <<>>

\* Three texts answered in another order than they were submitted.
C15_Witness ==
  /\ RoundTripDone /\ ~rd.res.raised
  /\ Len(enc.quotes) = 3 /\ Len(rd.res.df) = 3
  /\ rd.job.out.recs[1].custom_id = Str(enc.res.payload[3].custom_id)
  /\ rd.res.df[1].custom_id = Str(CustomId("quote", 3))

\* The record has one row in the table, with its id and text, the label
\* and the repair note.
RepairedAs(rows, rec, label, note) ==
  /\ Len(rows) = 1
  /\ rows[1].custom_id = rec.custom_id
  /\ rows[1].quote = rec.quote
  /\ rows[1].label = Str(label)
  /\ rows[1].repair_note = Str(<<note>>)

OkRecords(recs) == {i \in 1..Len(recs) : recs[i].shape = "ok"}

\* The beginnings of labels a text can be cut after.
Partials == {<<"a">>, <<"b">>, <<"a", " ", "b">>}
TruncatedText(partial) == <<"{", Q, "label", Q, ":", Q>> \o partial

\* C16: an output record whose text stops after {"label":"<partial> has
\* exactly one row in the table, with label <partial> and the repair note
\* "Truncated JSON repaired".
C16_TruncationRepair ==
  (Reconciled /\ ~rd.res.raised) =>
    \A i \in OkRecords(rd.job.out.recs) : \A partial \in Partials :
       rd.job.out.recs[i].text = TruncatedText(partial) =>
         RepairedAs(RowsOf(rd.res.df, rd.job.out.recs[i].custom_id),
                    rd.job.out.recs[i], partial, "Truncated JSON repaired")

\* A text cut inside a label of two words, repaired.
C16_Witness ==
  /\ Reconciled /\ ~rd.res.raised
  /\ \E i \in OkRecords(rd.job.out.recs) :
       /\ rd.job.out.recs[i].text = TTruncatedWords
       /\ Len(RowsOf(rd.res.df, rd.job.out.recs[i].custom_id)) = 1
       /\ RowsOf(rd.res.df, rd.job.out.recs[i].custom_id)[1].label = Str(<<"a", " ", "b">>)
       /\ RowsOf(rd.res.df, rd.job.out.recs[i].custom_id)[1].repair_note = Str(<<NoteTruncated>>)

\* A JSON text between fences: an optional json tag after the opening
\* fence, the text on its own line, whitespace after the closing fence.
FencedText(tag, inner, trail) ==
  <<FENCE>> \o tag \o <<"\n">> \o inner \o <<"\n", FENCE>> \o trail
FencedForms ==
  {[text |-> FencedText(tag, inner, trail), inner |-> inner] :
     tag \in {<<>>, <<"json">>}, inner \in {TGood, TOther, TMulti},
     trail \in {<<>>, <<"\n">>}}
IsFenced(text) == \E f \in FencedForms : f.text = text
UnfencedRec(rec) ==
  IF rec.shape = "ok" /\ IsFenced(rec.text)
  THEN [rec EXCEPT !.text = (CHOOSE f \in FencedForms : f.text = rec.text).inner]
  ELSE rec
UnfencedJob(job) ==
  [job EXCEPT !.out.recs = [i \in 1..Len(job.out.recs) |-> UnfencedRec(job.out.recs[i])]]
SameTables(a, b) ==
  /\ a.raised = b.raised /\ a.err = b.err
  /\ a.responses = b.responses
  /\ a.bad_rows = b.bad_rows
  /\ a.df = b.df

\* C17: get_batch_results makes of an output file whose JSON texts are
\* wrapped in fences the same rows, bad rows and table as of the file with
\* the texts unwrapped, and the row of a fenced text has no repair note.
C17_FenceRepair ==
  Reconciled =>
    /\ SameTables(rd.res, get_batch_results(UnfencedJob(rd.job), FALSE, FALSE))
    /\ ~rd.res.raised =>
         \A i \in OkRecords(rd.job.out.recs) : \A n \in 1..Len(rd.res.df) :
            (IsFenced(rd.job.out.recs[i].text)
               /\ rd.res.df[n].custom_id = rd.job.out.recs[i].custom_id)
              => rd.res.df[n].repair_note = Absent

\* A file with a fenced text and the same text with the json tag, each
\* making a row.
C17_Witness ==
  /\ Reconciled /\ ~rd.res.raised
  /\ Len(rd.job.out.recs) = 2
  /\ rd.job.out.recs[1].shape = "ok" /\ rd.job.out.recs[1].text = TFenced
  /\ rd.job.out.recs[2].shape = "ok" /\ rd.job.out.recs[2].text = TFencedJson
  /\ Len(rd.res.df) = 2
  /\ rd.res.df[1].label = Str(<<"a">>) /\ rd.res.df[2].label = Str(<<"b">>)

\* A text that is a label key, a colon or an equals sign and a value, with
\* optional blanks around the sign and optional quotes around the value.
KeyValueText(key, sp1, sign, sp2, q, value) ==
  <<key>> \o sp1 \o <<sign>> \o sp2 \o q \o value \o q
KeyValueForms ==
  {[text |-> KeyValueText(key, sp1, sign, sp2, q, value), value |-> value] :
     key \in {"label", "LABEL"}, sp1 \in {<<>>, <<" ">>}, sign \in {":", "="},
     sp2 \in {<<>>, <<" ">>}, q \in {<<>>, <<Q>>}, value \in Partials}

\* C18: an output record whose text is label: <value> or label = <value>
\* (the key in either case, the value quoted or not) has exactly one row in
\* the table, with label <value> and the repair note "Non-JSON label
\* recovered".
C18_KeyValueRepair ==
  (Reconciled /\ ~rd.res.raised) =>
    \A i \in OkRecords(rd.job.out.recs) : \A f \in KeyValueForms :
       rd.job.out.recs[i].text = f.text =>
         RepairedAs(RowsOf(rd.res.df, rd.job.out.recs[i].custom_id),
                    rd.job.out.recs[i], f.value, "Non-JSON label recovered")

\* A bare value after a colon and a quoted value after an upper-case key
\* and an equals sign, both recovered.
C18_Witness ==
  /\ Reconciled /\ ~rd.res.raised
  /\ Len(rd.job.out.recs) = 2
  /\ rd.job.out.recs[1].shape = "ok" /\ rd.job.out.recs[1].text = TKeyValue
  /\ rd.job.out.recs[2].shape = "ok" /\ rd.job.out.recs[2].text = TKeyValueQuoted
  /\ Len(rd.res.df) = 2
  /\ rd.res.df[1].label = Str(<<"a">>) /\ rd.res.df[2].label = Str(<<"b">>)
  /\ rd.res.df[2].repair_note = Str(<<NoteRecovered>>)

BadRowsOf(bad, id) == SelectSeq(bad, LAMBDA b: b.custom_id = id)

\* The record has one bad row, and its raw text is the given text.
FailedAs(bad, raw) == Len(bad) = 1 /\ bad[1].raw_text = Str(raw)

\* C19: an output record whose text is neither JSON nor repairable has
\* exactly one bad row, whose raw text is the first 80 characters of the
\* text, and every other record of the file is still made a row or a bad
\* row.
C19_UnrecoverableContent ==
  (Reconciled /\ ~rd.res.raised) =>
    /\ \A i \in OkRecords(rd.job.out.recs) :
         Unparseable(rd.job.out.recs[i].text) =>
           FailedAs(BadRowsOf(rd.res.bad_rows, rd.job.out.recs[i].custom_id),
                    _safe_parse_model_text(rd.job.out.recs[i].text).raw)
    /\ Len(rd.res.responses) + Len(rd.res.bad_rows) = Len(NonBlank(rd.job.out.recs))

ProvidedIn(parsed) ==
  IF parsed.ok /\ parsed.v.k = "obj" /\ Lookup(parsed.v, "classifications").k = "arr"
  THEN Lookup(parsed.v, "classifications").items
  ELSE <<>>

\* The item is made of one of the classification objects and has the
\* confidence of that object: its value, or none when it has none.
ItemVerbatim(item, provided) ==
  \E k \in 1..Len(provided) :
     /\ Lookup(provided[k], "quote") = Str(item.quote)
     /\ Lookup(provided[k], "label") = Str(item.label)
     /\ Lookup(provided[k], "confidence") = item.confidence

RowVerbatim(row, p) == row.confidence = Lookup(p.v, "confidence")

\* C22: every row of the table get_batch_results saves has the confidence
\* the text of its record provides, and none when the text provides none;
\* every item OpenAIService.get_batch_results returns has the confidence of
\* the classification it was made of, and none when that provides none.
C22_ConfidenceVerbatim ==
  /\ (Reconciled /\ ~rd.res.raised) =>
       \A i \in OkRecords(rd.job.out.recs) : \A n \in 1..Len(rd.res.df) :
          rd.res.df[n].custom_id = rd.job.out.recs[i].custom_id =>
            RowVerbatim(rd.res.df[n], _safe_parse_model_text(rd.job.out.recs[i].text))
  /\ (rd.op = "services" /\ ~rd.res.raised) =>
       \A n \in 1..Len(rd.res.responses) :
          \E i \in OkRecords(rd.job.out.recs) :
             ItemVerbatim(rd.res.responses[n], ProvidedIn(json_loads(rd.job.out.recs[i].text)))

FailedWithErrors ==
  /\ rd.op = "results"
  /\ rd.job.status = "failed" /\ rd.job.err.present /\ ~rd.job.out.present

\* C23: get_batch_results on a failed job with an error file returns after
\* building a table of exactly one row per record of the file, in order,
\* each row the error object of the record's response body; it parses no
\* model text (no row, no bad row, no repair), and the table is what is
\* written when the user saves it.
C23_FailureReport ==
  FailedWithErrors =>
    /\ ~rd.res.raised /\ rd.res.path = "fail_report"
    /\ Len(rd.res.error_rows) = Len(rd.job.err.recs)
    /\ \A i \in 1..Len(rd.job.err.recs) : rd.res.error_rows[i] = rd.job.err.recs[i].error
    /\ rd.res.responses = <<>> /\ rd.res.bad_rows = <<>> /\ rd.res.df = <<>>
    /\ rd.res.saved => rd.res.error_csv = rd.res.error_rows

\* The two errors of a failed job, saved by the user.
C23_Witness ==
  /\ FailedWithErrors /\ rd.res.saved
  /\ Len(rd.job.err.recs) = 2
  /\ Len(rd.res.error_csv) = 2
  /\ rd.res.error_csv[2].code = "server_error"

\* The text stops inside the value of the label: nothing but characters
\* of the value follows the opening quote.
IsTruncatedShape(t) ==
  /\ IsPrefix(<<"{", Q, "label", Q, ":", Q>>, t)
  /\ Len(t) > 6
  /\ AllNotIn(t, 7, Len(t), {Q, "}", "\n"})

TaggedTruncated(df, id) ==
  \E n \in 1..Len(df) :
     df[n].custom_id = id /\ df[n].repair_note = Str(<<"Truncated JSON repaired">>)

\* C24: a row of the table carries the note "Truncated JSON repaired" only
\* when the text of its record stops inside the value of the label.
C24_TruncationOnly ==
  (Reconciled /\ ~rd.res.raised) =>
    \A i \in OkRecords(rd.job.out.recs) :
       TaggedTruncated(rd.res.df, rd.job.out.recs[i].custom_id)
         => IsTruncatedShape(Strip(rd.job.out.recs[i].text))

EncodingFailed == enc.op = "encode" /\ enc.done /\ enc.res.raised
NetworkTouched ==
  \/ files # <<>> \/ jobs # <<>>
  \/ \E c \in 1..Len(calls) : calls[c].uploads > 0 \/ calls[c].creates > 0

\* C25: in a send_batch call the upload is requested only after the encoder
\* returned a buffer; when the batch type is unknown or the encoder raises,
\* the call ends with that exception, no upload and no job creation is
\* requested, and the encoder is not run a second time.
C25_ConstructionFirst ==
  /\ [](NetworkTouched => (enc.op = "encode" /\ enc.done /\ ~enc.res.raised))
  /\ [](EncodingFailed => (calls[1].pc = "raised" /\ ~NetworkTouched))
  /\ [][enc.done => enc' = enc]_vars

\* An unknown batch type has left the call, and nothing was sent.
C25_Witness ==
  /\ EncodingFailed /\ enc.type = "other"
  /\ Len(calls) = 1 /\ calls[1].pc = "raised"
  /\ files = <<>> /\ jobs = <<>>

\* The position of a job in a list that holds it.
Pos(b, seq) == CHOOSE k \in 1..Len(seq) : seq[k] = b
InOrderOf(part, seq) ==
  \A i, j \in 1..Len(part) : i < j => Pos(part[i], seq) < Pos(part[j], seq)

\* The two lists hold every job of the listing once, in its order.
Partitions(tables, batches) ==
  /\ Len(tables.ongoing) + Len(tables.done) = Len(batches)
  /\ \A b \in Range(batches) : InSeq(b, tables.ongoing) # InSeq(b, tables.done)
  /\ Range(tables.ongoing) \cup Range(tables.done) = Range(batches)
  /\ InOrderOf(tables.ongoing, batches) /\ InOrderOf(tables.done, batches)

\* C26: whenever list_batches refreshes the tables, every job the provider
\* returned is in exactly one of the two lists, the lengths of the lists
\* add up to the number of jobs returned, a job with a status list_batches
\* does not know (expired) is in the done list, and each list has its jobs
\* in the order the provider returned them.
C26_ListPartition ==
  [][listed' # listed =>
       /\ Partitions(listed', ProviderList(jobs, max_batches))
       /\ \A b \in Range(ProviderList(jobs, max_batches)) :
            b.status = "expired" => InSeq(b, listed'.done)]_vars

\* Two ended jobs, one of them expired, listed newest first.
C26_Witness ==
  /\ Len(listed.done) = 2 /\ listed.ongoing = <<>>
  /\ listed.done[1].id > listed.done[2].id
  /\ \E b \in Range(listed.done) : b.status = "expired"

\* A refresh worker that got its tables from list_batches.
Fetched == {w \in 1..Len(ui.workers) : ui.workers[w].seq > 0}
\* Worker w has ended and none of its callbacks is still to run.
Finished(w) ==
  /\ ui.workers[w].pc = "done"
  /\ \A q \in 1..Len(ui.queue) : ui.queue[q].w # w

\* C27: in every state of the window, whatever the order in which the
\* refresh, submit and cancel workers and the UI thread ran, the two tables
\* are either both as they were at start-up or both the lists of one
\* list_batches result, that of the refresh whose callback ran last, and no
\* job id is in both tables.
C27_TablesTogether ==
  /\ IF ui.shown = 0 THEN listed = NoTables
     ELSE ui.shown \in Fetched /\ listed = ui.workers[ui.shown].snap
  /\ \A i \in 1..Len(listed.ongoing) : \A j \in 1..Len(listed.done) :
       listed.ongoing[i].id # listed.done[j].id

\* The tables were replaced a second time, by a refresh that found under
\* done a job the refresh shown before it had found under ongoing.
C27_Witness ==
  /\ ui.shown # 0
  /\ \E w \in Fetched :
       /\ w # ui.shown /\ Finished(w)
       /\ \E i \in 1..Len(ui.workers[w].snap.ongoing) : \E j \in 1..Len(listed.done) :
            ui.workers[w].snap.ongoing[i].id = listed.done[j].id

\* Once every refresh has ended and its callback has run, the tables are
\* those of the refresh that was started last.
LatestStartedShown ==
  (Fetched # {} /\ \A w \in Fetched : Finished(w))
    => \A w \in Fetched : w <= ui.shown
\* A callback never replaces the tables of a list_batches call by those of
\* an earlier list_batches call.
NeverOlderOverNewer ==
  [][(ui.shown # 0 /\ ui'.shown # ui.shown)
       => ui'.workers[ui'.shown].seq > ui.workers[ui.shown].seq]_vars

\* C28: with several refreshes in flight, the tables shown once all of them
\* have finished are those fetched by the refresh started last, and no
\* callback replaces a newer list_batches result by an older one.
C28_LatestSnapshotWins == []LatestStartedShown /\ NeverOlderOverNewer

\* C30: every worker of a submit, download, refresh or cancel in which an
\* exception was raised has, once it has ended and its callbacks have run,
\* put an error dialog on the screen.
C30_ErrorsReported ==
  \A w \in 1..Len(ui.workers) :
    (ui.workers[w].raised /\ Finished(w)) => w \in ui.dialogs

\* What get_batch_results can make a row or a bad row of: None with its
\* note, or a mapping.
Usable(p) == p.none \/ p.v.k = "obj"

\* C29: for every text of a complete output record _safe_parse_model_text
\* returns None with a note or a mapping, and get_batch_results on an output
\* whose records are all complete does not raise on what the parser
\* returned, a text that is valid JSON but not an object included.
C29_ParseUsable ==
  (Reconciled /\ OkRecords(rd.job.out.recs) = 1..Len(rd.job.out.recs))
    => /\ \A i \in 1..Len(rd.job.out.recs) :
            Usable(_safe_parse_model_text(rd.job.out.recs[i].text))
       /\ rd.res.err # "TypeError"

====
